---- MODULE Spec2Model ----
(***************************************************************************)
(* A model of the poker hand classifier and comparator of                  *)
(* src/poker_hand.py (class PokerHand and the module functions             *)
(* _compare_eq and _compare_lt).                                           *)
(*                                                                         *)
(* A card is a record [suit, rank] with suit in 0..3 and rank in 1..13     *)
(* (1 is the Ace).  A PokerHand object is a record of its data attributes: *)
(*   cards        the list of cards (base class Hand)                      *)
(*   normal_flow  self.__normal_flow                                       *)
(*   cards_copy   self.__cards_copy                                        *)
(*   hand         self.__hand: <<>>, <<htype, hand>> or                    *)
(*                <<htype, hand, rest of hand>>                            *)
(* self.__suits and self.__ranks are rebuilt from the cards by every       *)
(* classification and read by nothing else; they are the operators         *)
(* SuitGroups and RankGroups.  self.label is formatting only.              *)
(***************************************************************************)
EXTENDS Integers, Sequences, FiniteSets, TLC

VARIABLES this, other, call, outcome, stats

vars == <<this, other, call, outcome, stats>>

-----------------------------------------------------------------------------
(* Program constants of class PokerHand.                                   *)

HIGH_CARD == 0
PAIR == 1
TWO_PAIR == 2
THREE_OF_A_KIND == 3
STRAIGHT == 4
FLUSH == 5
FULL_HOUSE == 6
FOUR_OF_A_KIND == 7
STRAIGHT_FLUSH == 8

MIN_NUM_CARDS == 5
MAX_NUM_CARDS == 7
SEQUENCE == 5
MAXLEN_HAND == 3

(* The rank of the Ace and the rank that closes ace, king, queen, jack, 10 *)
ACE == 1
TEN == 10

(* PokerStats.NONE, UPDATE, APPEND, ITERATIONS and CARDS_PER_DECK *)
NONE == 0
UPDATE == 1
APPEND == 2
ITERATIONS == 10000
CARDS_PER_DECK == 52

(* TicTacToe *)
STRIKE == 3

-----------------------------------------------------------------------------
(* Bounds of the model.                                                    *)

(* The cards that are dealt are the first DeckSize cards of DeckOrder.     *)
DeckSize == 15

(* The hands that are compared with each other are built from the first    *)
(* CmpDeckSize cards of DeckOrder.                                         *)
CmpDeckSize == 8

(* The cards that are added to a hand one by one are the first             *)
(* LifeDeckSize cards of DeckOrder.                                        *)
LifeDeckSize == 9

(* The number of cards of each deck of OrderDecks that hands are taken from *)
OrderDeckSize == 7

(* The statistics are run with at most MaxIterations iterations, and a     *)
(* PokerStats object is not made to count more than MaxSamples hands.      *)
MaxIterations == 1
MaxSamples == 16

-----------------------------------------------------------------------------
(* Cards and the order in which they are dealt.                            *)

Card(s, r) == [suit |-> s, rank |-> r]

(* A fixed deal order, sorted neither by rank nor by suit.  Its first 8    *)
(* cards are the clubs (suit 0) A,2,3,4,5 and the diamonds (suit 1) A,2,5; *)
(* its first 15 cards add the diamonds 10,J,Q,K, the other two 2s and the  *)
(* Ace of hearts; the 16th card is the 6 of clubs.  The cards of a hand    *)
(* are distinct, as the cards dealt from a deck are.                       *)
DeckOrder ==
    << Card(0, 5),  Card(1, 1),  Card(0, 2),  Card(0, 4),  Card(0, 1),
       Card(1, 5),  Card(0, 3),  Card(1, 2),  Card(1, 13), Card(1, 12),
       Card(2, 2),  Card(1, 10), Card(2, 1),  Card(1, 11), Card(3, 2),
       Card(0, 6),  Card(0, 13), Card(1, 9),  Card(2, 5),  Card(0, 7) >>

Min(a, b) == IF a < b THEN a ELSE b

(* The sequences of cards dealt in deal order from the first n cards of    *)
(* DeckOrder, with between lo and hi cards.                                *)
RECURSIVE DealsFrom(_, _, _)
DealsFrom(i, n, k) ==
    IF k = 0 THEN { <<>> }
    ELSE UNION { { <<DeckOrder[j]>> \o t : t \in DealsFrom(j + 1, n, k - 1) } :
                 j \in i..Min(n, Len(DeckOrder)) }

Deals(n, lo, hi) == UNION { DealsFrom(1, n, k) : k \in lo..hi }

-----------------------------------------------------------------------------
(* Python list helpers.                                                    *)

(* s[:k] *)
Take(s, k) == SubSeq(s, 1, Min(k, Len(s)))

(* s.insert(0, s.pop()) *)
LastToFront(s) == <<s[Len(s)]>> \o SubSeq(s, 1, Len(s) - 1)

(* list.remove(x): drops the first element equal to x *)
RECURSIVE Remove(_, _)
Remove(s, x) ==
    IF s = <<>> THEN <<>>
    ELSE IF s[1] = x THEN Tail(s)
    ELSE <<s[1]>> \o Remove(Tail(s), x)

RECURSIVE RemoveAll(_, _)
RemoveAll(s, xs) ==
    IF xs = <<>> THEN s ELSE RemoveAll(Remove(s, xs[1]), Tail(xs))

(* One step of a stable descending sort by rank: c goes behind every card  *)
(* of s whose rank is not smaller.                                         *)
RECURSIVE InsertDesc(_, _)
InsertDesc(s, c) ==
    IF s = <<>> THEN <<c>>
    ELSE IF s[1].rank >= c.rank THEN <<s[1]>> \o InsertDesc(Tail(s), c)
    ELSE <<c>> \o s

(* sort(reverse = True) on cards; equal ranks keep their order *)
RECURSIVE SortDesc(_)
SortDesc(s) ==
    IF s = <<>> THEN <<>>
    ELSE InsertDesc(SortDesc(SubSeq(s, 1, Len(s) - 1)), s[Len(s)])

(* The keys of a dict filled by setdefault in list order. *)
RECURSIVE KeysInOrder(_, _)
KeysInOrder(s, seen) ==
    IF s = <<>> THEN <<>>
    ELSE IF s[1] \in seen THEN KeysInOrder(Tail(s), seen)
    ELSE <<s[1]>> \o KeysInOrder(Tail(s), seen \cup {s[1]})

Ranks(s) == [i \in 1..Len(s) |-> s[i].rank]
Suits(s) == [i \in 1..Len(s) |-> s[i].suit]

IsSuit(c, s) == c.suit = s
IsRank(c, r) == c.rank = r

(* self.__suits.values(): one list of cards per suit, suits in the order   *)
(* in which they first appear.                                             *)
SuitGroups(cards) ==
    LET keys == KeysInOrder(Suits(cards), {})
    IN  [i \in 1..Len(keys) |-> SelectSeq(cards, LAMBDA c : IsSuit(c, keys[i]))]

(* sorted(self.__ranks.items(), reverse = True): (rank, cards) by          *)
(* descending rank.                                                        *)
RECURSIVE SortKeysDesc(_)
SortKeysDesc(S) ==
    IF S = {} THEN <<>>
    ELSE LET m == CHOOSE x \in S : \A y \in S : y <= x
         IN  <<m>> \o SortKeysDesc(S \ {m})

(* Mutant of RankGroups: the ranks are taken in the order in which they   *)
(* first appear among the cards.                                           *)
RankGroups_AsMet(cards) ==
    LET keys == KeysInOrder(Ranks(cards), {})
    IN  [i \in 1..Len(keys) |->
            [rank |-> keys[i],
             cards |-> SelectSeq(cards, LAMBDA c : IsRank(c, keys[i]))]]

RankGroups(cards) ==
    LET keys == SortKeysDesc({ cards[i].rank : i \in 1..Len(cards) })
    IN  [i \in 1..Len(keys) |->
            [rank |-> keys[i],
             cards |-> SelectSeq(cards, LAMBDA c : IsRank(c, keys[i]))]]

-----------------------------------------------------------------------------
(* PokerHand.__reset and PokerHand.__add.                                  *)

(* __reset(normal_flow): the cards stay, the rest is initialised.          *)
Reset(obj, normal_flow) ==
    [cards       |-> obj.cards,
     normal_flow |-> normal_flow,
     cards_copy  |-> IF normal_flow THEN obj.cards ELSE <<>>,
     hand        |-> <<>>]

(* __add(htype, hand) on an empty self.__hand: extend((htype, hand)) *)
Add(htype, hand) == <<htype, hand>>

-----------------------------------------------------------------------------
(* PokerHand.__suit: straight flush and flush.                             *)

(* Mutant of FirstWindow: a window that ends with the Ace is passed over.  *)
RECURSIVE FirstWindow_NoAceLow(_, _)
FirstWindow_NoAceLow(ranks, i) ==
    IF i > Len(ranks) - SEQUENCE + 1 THEN 0
    ELSE IF /\ ranks[i] = ranks[i + SEQUENCE - 1] + SEQUENCE - 1
            /\ ranks[i + SEQUENCE - 1] # ACE
         THEN i
    ELSE FirstWindow_NoAceLow(ranks, i + 1)

(* The first i in range(len(hand) - SEQUENCE + 1), counted from 1, whose   *)
(* window of SEQUENCE ranks is consecutive; 0 if there is none.            *)
RECURSIVE FirstWindow(_, _)
FirstWindow(ranks, i) ==
    IF i > Len(ranks) - SEQUENCE + 1 THEN 0
    ELSE IF ranks[i] = ranks[i + SEQUENCE - 1] + SEQUENCE - 1 THEN i
    ELSE FirstWindow(ranks, i + 1)

(* Mutant of SuitHand: the Ace of a flush stays behind. *)
SuitHand_AceLast(group) ==
    LET hand == SortDesc(group)
        ace  == hand[Len(hand)].rank = ACE
        i    == FirstWindow(Ranks(hand), 1)
    IN  IF ace /\ hand[SEQUENCE - 1].rank = TEN
        THEN Add(STRAIGHT_FLUSH, Take(LastToFront(hand), SEQUENCE))
        ELSE IF i # 0
        THEN Add(STRAIGHT_FLUSH, SubSeq(hand, i, i + SEQUENCE - 1))
        ELSE Add(FLUSH, Take(hand, MIN_NUM_CARDS))

(* The body of the loop over the suits for one suit with at least          *)
(* MIN_NUM_CARDS cards.                                                    *)
SuitHand(group) ==
    LET hand == SortDesc(group)
        ace  == hand[Len(hand)].rank = ACE
        i    == FirstWindow(Ranks(hand), 1)
    IN  IF ace /\ hand[SEQUENCE - 1].rank = TEN
        THEN Add(STRAIGHT_FLUSH, Take(LastToFront(hand), SEQUENCE))
        ELSE IF i # 0
        THEN Add(STRAIGHT_FLUSH, SubSeq(hand, i, i + SEQUENCE - 1))
        ELSE Add(FLUSH, Take(IF ace THEN LastToFront(hand) ELSE hand, MIN_NUM_CARDS))

(* Mutant of Suit: the pruning test is strict. *)
Suit_StrictPrune(cards) ==
    LET groups == SuitGroups(cards)
        big    == SelectSeq(groups, LAMBDA g : Len(g) >= MIN_NUM_CARDS)
    IN  IF Len(groups) < Len(cards) - MIN_NUM_CARDS + 1 /\ big # <<>>
        THEN SuitHand(big[1])
        ELSE <<>>

(* __suit(): self.__hand after it, starting from an empty self.__hand *)
Suit(cards) ==
    LET groups == SuitGroups(cards)
        big    == SelectSeq(groups, LAMBDA g : Len(g) >= MIN_NUM_CARDS)
    IN  IF Len(groups) <= Len(cards) - MIN_NUM_CARDS + 1 /\ big # <<>>
        THEN SuitHand(big[1])
        ELSE <<>>

-----------------------------------------------------------------------------
(* PokerHand.__straight, __full_house, __rank.                             *)

NoCard == [suit |-> -1, rank |-> 0]

(* ranks[j][1][0] for j in from..to: the first card of each rank *)
FirstCards(ranks, from, to) ==
    [j \in 1..(to - from + 1) |-> ranks[from + j - 1].cards[1]]

(* __straight(ranks, ace): the hand added, <<>> if it returns False *)
Straight(ranks, ace) ==
    LET i == FirstWindow([j \in 1..Len(ranks) |-> ranks[j].rank], 1)
    IN  IF Len(ranks) < SEQUENCE THEN <<>>
        ELSE IF ace # NoCard /\ ranks[SEQUENCE - 1].rank = TEN
        THEN Add(STRAIGHT, <<ace>> \o FirstCards(ranks, 1, SEQUENCE - 1))
        ELSE IF i # 0
        THEN Add(STRAIGHT, FirstCards(ranks, i, i + SEQUENCE - 1))
        ELSE <<>>

(* Mutant of FullHouse: only the three of a kind is added. *)
FullHouse_ThreeOnly(hand, same_hand, complementary_hand) ==
    IF complementary_hand # <<>>
    THEN [added |-> TRUE,
          full  |-> IF Len(hand) = 2 THEN complementary_hand ELSE hand,
          same  |-> same_hand]
    ELSE IF Len(same_hand) = 3
    THEN [added |-> TRUE, full |-> same_hand, same |-> same_hand]
    ELSE [added |-> FALSE, full |-> <<>>, same |-> same_hand \o hand]

(* Mutant of FullHouse: the cards are added in the order in which the two  *)
(* groups were met.                                                        *)
FullHouse_AsMet(hand, same_hand, complementary_hand) ==
    IF complementary_hand # <<>>
    THEN [added |-> TRUE,
          full  |-> Take(complementary_hand, IF Len(hand) = 2 THEN 3 ELSE 2) \o hand,
          same  |-> same_hand]
    ELSE IF Len(same_hand) = 3
    THEN [added |-> TRUE,
          full  |-> same_hand \o SubSeq(hand, 1, Len(hand) - 1),
          same  |-> same_hand]
    ELSE [added |-> FALSE, full |-> <<>>, same |-> same_hand \o hand]

(* Mutant of FullHouse: of two threes of a kind the one met second comes   *)
(* first, and of two pairs the one met second is taken.                    *)
FullHouse_SecondMet(hand, same_hand, complementary_hand) ==
    IF complementary_hand # <<>>
    THEN [added |-> TRUE,
          full  |-> IF Len(hand) = 2 THEN complementary_hand \o hand
                    ELSE hand \o SubSeq(complementary_hand,
                                        Len(complementary_hand) - 1,
                                        Len(complementary_hand)),
          same  |-> same_hand]
    ELSE IF Len(same_hand) = 3
    THEN [added |-> TRUE,
          full  |-> hand \o Take(same_hand, 2),
          same  |-> same_hand]
    ELSE [added |-> FALSE, full |-> <<>>, same |-> same_hand \o hand]

(* __full_house(hand, same_hand, complementary_hand): added is the value   *)
(* returned, full the full house added, same the list same_hand after it.  *)
FullHouse(hand, same_hand, complementary_hand) ==
    IF complementary_hand # <<>>
    THEN [added |-> TRUE,
          full  |-> IF Len(hand) = 2 THEN complementary_hand \o hand
                    ELSE hand \o Take(complementary_hand, 2),
          same  |-> same_hand]
    ELSE IF Len(same_hand) = 3
    THEN [added |-> TRUE,
          full  |-> same_hand \o SubSeq(hand, 1, Len(hand) - 1),
          same  |-> same_hand]
    ELSE [added |-> FALSE, full |-> <<>>, same |-> same_hand \o hand]

(* The loop "for hand in ranks" of __rank from position i on, and the      *)
(* statements behind it.                                                   *)
RECURSIVE RankLoop(_, _, _, _)
RankLoop(ranks, i, three, pairs) ==
    IF i > Len(ranks)
    THEN IF Len(pairs) = 2 THEN Add(PAIR, pairs)
         ELSE IF pairs # <<>> THEN Add(TWO_PAIR, Take(pairs, 4))
         ELSE IF three # <<>> THEN Add(THREE_OF_A_KIND, three)
         ELSE <<>>
    ELSE LET hand == ranks[i].cards
             p    == FullHouse(hand, pairs, three)
             t    == FullHouse(hand, three, pairs)
         IN  CASE Len(hand) = 2 ->
                    IF p.added THEN Add(FULL_HOUSE, p.full)
                    ELSE RankLoop(ranks, i + 1, three, p.same)
               [] Len(hand) = 3 ->
                    IF t.added THEN Add(FULL_HOUSE, t.full)
                    ELSE RankLoop(ranks, i + 1, t.same, pairs)
               [] Len(hand) = 4 -> Add(FOUR_OF_A_KIND, hand)
               [] OTHER -> RankLoop(ranks, i + 1, three, pairs)

(* Mutant of Rank: the rank of the Ace is not made the first of the ranks. *)
Rank_AceLast(cards) ==
    LET ranks    == RankGroups(cards)
        has_ace  == ranks[Len(ranks)].rank = ACE
        ace      == IF has_ace THEN ranks[Len(ranks)].cards[1] ELSE NoCard
        straight == Straight(ranks, ace)
    IN  IF straight # <<>> THEN straight
        ELSE RankLoop(ranks, 1, <<>>, <<>>)

(* __rank() when self.__hand is empty and there is at least one card:      *)
(* self.__hand after it.                                                   *)
Rank(cards) ==
    LET ranks    == RankGroups(cards)
        has_ace  == ranks[Len(ranks)].rank = ACE
        ace      == IF has_ace THEN ranks[Len(ranks)].cards[1] ELSE NoCard
        straight == Straight(ranks, ace)
    IN  IF straight # <<>> THEN straight
        ELSE RankLoop(IF has_ace THEN LastToFront(ranks) ELSE ranks, 1, <<>>, <<>>)

-----------------------------------------------------------------------------
(* PokerHand.__high_card and PokerHand.__rest.                             *)

(* Card(): "init to smallest value" *)
SmallestCard == [suit |-> 0, rank |-> 2]

RECURSIVE HighCardFrom(_, _)
HighCardFrom(cards, high_card) ==
    IF cards = <<>> THEN high_card
    ELSE IF cards[1].rank = ACE THEN cards[1]
    ELSE HighCardFrom(Tail(cards),
                      IF cards[1].rank > high_card.rank THEN cards[1] ELSE high_card)

HighCard(cards) == HighCardFrom(cards, SmallestCard)

(* Mutant of Rest: the rest of hand is one card short. *)
Rest_OneShort(obj) ==
    LET rest   == MIN_NUM_CARDS - Len(obj.hand[2])
        left   == SortDesc(RemoveAll(obj.cards_copy, obj.hand[2]))
        sorted == IF left[Len(left)].rank = ACE THEN LastToFront(left) ELSE left
    IN  IF Len(obj.hand) = MAXLEN_HAND - 1 /\ rest # 0
        THEN [obj EXCEPT !.hand = Append(obj.hand, Take(sorted, rest - 1)),
                         !.cards_copy = sorted \o obj.hand[2]]
        ELSE obj

(* Mutant of Rest: a rest of hand is added to a hand of 5 cards as well. *)
Rest_Always(obj) ==
    LET rest   == MIN_NUM_CARDS - Len(obj.hand[2])
        left   == SortDesc(RemoveAll(obj.cards_copy, obj.hand[2]))
        sorted == IF left # <<>> /\ left[Len(left)].rank = ACE
                  THEN LastToFront(left) ELSE left
    IN  IF Len(obj.hand) = MAXLEN_HAND - 1
        THEN [obj EXCEPT !.hand = Append(obj.hand, Take(sorted, rest)),
                         !.cards_copy = sorted \o obj.hand[2]]
        ELSE obj

(* Mutant of Rest: no Ace is moved to the front of the rest of hand. *)
Rest_AceLow(obj) ==
    LET rest   == MIN_NUM_CARDS - Len(obj.hand[2])
        sorted == SortDesc(RemoveAll(obj.cards_copy, obj.hand[2]))
    IN  IF Len(obj.hand) = MAXLEN_HAND - 1 /\ rest # 0
        THEN [obj EXCEPT !.hand = Append(obj.hand, Take(sorted, rest)),
                         !.cards_copy = sorted \o obj.hand[2]]
        ELSE obj

(* __rest() on an object whose self.__hand holds a type and a hand *)
Rest(obj) ==
    LET rest   == MIN_NUM_CARDS - Len(obj.hand[2])
        left   == SortDesc(RemoveAll(obj.cards_copy, obj.hand[2]))
        sorted == IF left[Len(left)].rank = ACE THEN LastToFront(left) ELSE left
    IN  IF Len(obj.hand) = MAXLEN_HAND - 1 /\ rest # 0
        THEN [obj EXCEPT !.hand = Append(obj.hand, Take(sorted, rest)),
                         !.cards_copy = sorted \o obj.hand[2]]
        ELSE obj

-----------------------------------------------------------------------------
(* PokerHand.__update, PokerHand.classify, PokerHand.__init__, clear.      *)

SameCards(s, t) ==
    /\ Len(s) = Len(t)
    /\ \A c \in { s[i] : i \in 1..Len(s) } :
          Len(SelectSeq(s, LAMBDA x : x = c)) = Len(SelectSeq(t, LAMBDA x : x = c))

(* __update(print_error) for a bool print_error: value is what it returns, *)
(* obj the object after it.                                                *)
Update(obj) ==
    IF Len(obj.cards) < MIN_NUM_CARDS
    THEN [obj |-> Reset(obj, TRUE), value |-> FALSE]
    ELSE [obj |-> obj, value |-> ~SameCards(obj.cards_copy, obj.cards)]

(* Mutant of Classification: with the performance optimizations the suits *)
(* are not looked at.                                                      *)
Classification_FastNoSuit(obj, normal_flow) ==
    LET r     == Reset(obj, normal_flow)
        suit  == IF normal_flow THEN Suit(r.cards) ELSE <<>>
        rank  == IF suit # <<>> THEN suit ELSE Rank(r.cards)
        hand  == IF rank # <<>> THEN rank
                 ELSE Add(HIGH_CARD, <<HighCard(r.cards)>>)
        added == [r EXCEPT !.hand = hand]
    IN  IF r.cards = <<>> THEN [obj |-> r, outcome |-> "IndexError"]
        ELSE [obj |-> IF normal_flow THEN Rest(added) ELSE added,
              outcome |-> "hand"]

(* Lines 89 to 103 of classify: the classification itself.  With no card   *)
(* at all, ranks[-1] in __rank raises IndexError behind the reset.         *)
Classification(obj, normal_flow) ==
    LET r     == Reset(obj, normal_flow)
        suit  == Suit(r.cards)
        rank  == IF suit # <<>> THEN suit ELSE Rank(r.cards)
        hand  == IF rank # <<>> THEN rank
                 ELSE Add(HIGH_CARD, <<HighCard(r.cards)>>)
        added == [r EXCEPT !.hand = hand]
    IN  IF r.cards = <<>> THEN [obj |-> r, outcome |-> "IndexError"]
        ELSE [obj |-> IF normal_flow THEN Rest(added) ELSE added,
              outcome |-> "hand"]

(* classify(normal_flow, print_error) for bool arguments: obj is the       *)
(* object after the call; the call returns obj.hand unless it raises.      *)
Classify(obj, normal_flow) ==
    LET u == Update(obj)
    IN  IF ~normal_flow THEN Classification(obj, normal_flow)
        ELSE IF u.value THEN Classification(u.obj, normal_flow)
        ELSE [obj |-> u.obj, outcome |-> "hand"]

(* The constructor, given a sequence of cards that are all of type Card *)
Ctor(cards) ==
    LET obj == Reset([cards |-> Take(cards, MAX_NUM_CARDS), normal_flow |-> FALSE,
                      cards_copy |-> <<>>, hand |-> <<>>], FALSE)
    IN  IF cards # <<>> THEN Classify(obj, TRUE).obj ELSE obj

-----------------------------------------------------------------------------
(* _compare_eq, _compare_lt, PokerHand.__eq__, PokerHand.__lt__.           *)

RECURSIVE compare_eq(_, _)
compare_eq(cards, other_cards) ==
    IF cards = <<>> \/ other_cards = <<>> THEN TRUE
    ELSE IF cards[1].rank # other_cards[1].rank THEN FALSE
    ELSE compare_eq(Tail(cards), Tail(other_cards))

(* Mutant of compare_lt: an Ace against an Ace decides instead of tying. *)
RECURSIVE compare_lt_AceVsAce(_, _)
compare_lt_AceVsAce(cards, other_cards) ==
    IF cards = <<>> \/ other_cards = <<>> THEN "None"
    ELSE LET card == cards[1]
             other_card == other_cards[1]
         IN  IF card.rank # ACE /\ (card.rank < other_card.rank \/ other_card.rank = ACE)
             THEN "True"
             ELSE IF card.rank > other_card.rank \/ card.rank = ACE
             THEN "False"
             ELSE compare_lt_AceVsAce(Tail(cards), Tail(other_cards))

(* Mutant of compare_lt: an Ace ties with any rank instead of beating it. *)
RECURSIVE compare_lt_AceTies(_, _)
compare_lt_AceTies(cards, other_cards) ==
    IF cards = <<>> \/ other_cards = <<>> THEN "None"
    ELSE LET card == cards[1]
             other_card == other_cards[1]
         IN  IF card.rank # ACE /\ other_card.rank # ACE /\ card.rank < other_card.rank
             THEN "True"
             ELSE IF card.rank # ACE /\ other_card.rank # ACE /\
                     card.rank > other_card.rank
             THEN "False"
             ELSE compare_lt_AceTies(Tail(cards), Tail(other_cards))

(* Mutant of compare_lt: the Ace is the lowest rank. *)
RECURSIVE compare_lt_AceLow(_, _)
compare_lt_AceLow(cards, other_cards) ==
    IF cards = <<>> \/ other_cards = <<>> THEN "None"
    ELSE IF cards[1].rank < other_cards[1].rank THEN "True"
    ELSE IF cards[1].rank > other_cards[1].rank THEN "False"
    ELSE compare_lt_AceLow(Tail(cards), Tail(other_cards))

(* "True", "False" or "None" *)
RECURSIVE compare_lt(_, _)
compare_lt(cards, other_cards) ==
    IF cards = <<>> \/ other_cards = <<>> THEN "None"
    ELSE LET card == cards[1]
             other_card == other_cards[1]
         IN  IF card.rank # ACE /\ (card.rank < other_card.rank \/ other_card.rank = ACE)
             THEN "True"
             ELSE IF other_card.rank # ACE /\
                     (card.rank > other_card.rank \/ card.rank = ACE)
             THEN "False"
             ELSE compare_lt(Tail(cards), Tail(other_cards))

BoolStr(b) == IF b THEN "True" ELSE "False"

(* Mutant of EqValue: the rest of hand is not compared. *)
EqValue_NoRest(hand, other_hand) ==
    IF hand # <<>> /\ other_hand # <<>>
    THEN BoolStr(hand[1] = other_hand[1] /\ compare_eq(hand[2], other_hand[2]))
    ELSE "NotImplemented"

(* The value of __eq__ for the two classified hands *)
EqValue(hand, other_hand) ==
    IF hand # <<>> /\ other_hand # <<>>
    THEN IF hand[1] = other_hand[1] /\ compare_eq(hand[2], other_hand[2])
         THEN IF Len(hand) = MAXLEN_HAND
              THEN BoolStr(compare_eq(hand[3], other_hand[3]))
              ELSE "True"
         ELSE "False"
    ELSE "NotImplemented"

(* The value of __lt__ for the two classified hands *)
LtValue(hand, other_hand) ==
    IF hand # <<>> /\ other_hand # <<>>
    THEN IF hand[1] < other_hand[1] THEN "True"
         ELSE IF hand[1] = other_hand[1]
         THEN LET cmp == compare_lt(hand[2], other_hand[2])
              IN  IF cmp = "None"
                  THEN IF Len(hand) = MAXLEN_HAND
                       THEN BoolStr(compare_lt(hand[3], other_hand[3]) = "True")
                       ELSE "False"
                  ELSE cmp
         ELSE "False"
    ELSE "NotImplemented"

(* Where hands are studied there is no PokerStats object. *)
NoStats == <<>>

-----------------------------------------------------------------------------
(* The classifier: a hand is constructed from cards dealt in deal order,   *)
(* and is then classified again, with or without the performance           *)
(* optimizations, or cleared.                                              *)

Init ==
    /\ this \in { Ctor(cards) : cards \in Deals(DeckSize, 0, MAX_NUM_CARDS) }
    /\ other = Ctor(<<>>)
    /\ call = "__init__"
    /\ outcome = "None"
    /\ stats = NoStats

(* this.classify(normal_flow) *)
DoClassify ==
    \E normal_flow \in BOOLEAN :
        LET r == Classify(this, normal_flow)
        IN  /\ this' = r.obj
            /\ call' = "classify"
            /\ outcome' = r.outcome
            /\ UNCHANGED <<other, stats>>

(* this.clear() *)
DoClear ==
    /\ this' = Ctor(<<>>)
    /\ call' = "clear"
    /\ outcome' = "None"
    /\ UNCHANGED <<other, stats>>

Next == DoClassify \/ DoClear

Spec == Init /\ [][Next]_vars

-----------------------------------------------------------------------------
(* The same cards in another order.  The cards of a hand are taken from    *)
(* the first OrderDeckSize cards of one of three small decks: the first    *)
(* holds a straight flush to the 5 and pairs, the second threes of a kind  *)
(* and, behind them, the fourth 2, the third a flush, straights to the     *)
(* King and to the Ace, and high cards.  other holds them in the order of  *)
(* the deck and this in any order.                                         *)

OrderDecks ==
    << SubSeq(DeckOrder, 1, 8),
       << Card(0, 2),  Card(1, 1),  Card(1, 2),  Card(0, 1),
          Card(2, 2),  Card(2, 1),  Card(0, 5),  Card(3, 2) >>,
       << Card(1, 13), Card(0, 9),  Card(1, 12), Card(1, 10),
          Card(0, 1),  Card(1, 11), Card(1, 6),  Card(1, 1) >> >>

(* The sequences of k cards in deck order from position i to n of a deck *)
RECURSIVE SubDeals(_, _, _, _)
SubDeals(deck, i, n, k) ==
    IF k = 0 THEN { <<>> }
    ELSE UNION { { <<deck[j]>> \o t : t \in SubDeals(deck, j + 1, n, k - 1) } :
                 j \in i..Min(n, Len(deck)) }

(* The orders in which the cards of the set F can be passed *)
RECURSIVE Orderings(_)
Orderings(F) ==
    IF F = {} THEN { <<>> }
    ELSE UNION { { <<c>> \o p : p \in Orderings(F \ {c}) } : c \in F }

InitOrder ==
    /\ \E d \in 1..Len(OrderDecks), k \in MIN_NUM_CARDS..MAX_NUM_CARDS :
          \E cards \in SubDeals(OrderDecks[d], 1, OrderDeckSize, k) :
              /\ other = Ctor(cards)
              /\ this \in { Ctor(p) :
                              p \in Orderings({ cards[i] : i \in 1..Len(cards) }) }
    /\ call = "__init__"
    /\ outcome = "None"
    /\ stats = NoStats

NextOrder == DoClassify

SpecOrder == InitOrder /\ [][NextOrder]_vars

-----------------------------------------------------------------------------
(* The comparator: two hands constructed from the cards of a small deck    *)
(* are compared with < and ==.                                             *)

CmpHands == { Ctor(cards) : cards \in Deals(CmpDeckSize, MIN_NUM_CARDS, MAX_NUM_CARDS) }

InitCmp ==
    /\ this \in CmpHands
    /\ other \in CmpHands
    /\ call = "__init__"
    /\ outcome = "None"
    /\ stats = NoStats

(* this < other: both hands are classified first *)
DoLt ==
    LET a == Classify(this, TRUE)
        b == Classify(other, TRUE)
    IN  /\ this' = a.obj
        /\ other' = b.obj
        /\ call' = "__lt__"
        /\ outcome' = LtValue(a.obj.hand, b.obj.hand)
        /\ UNCHANGED stats

(* this == other: both hands are classified first *)
DoEq ==
    LET a == Classify(this, TRUE)
        b == Classify(other, TRUE)
    IN  /\ this' = a.obj
        /\ other' = b.obj
        /\ call' = "__eq__"
        /\ outcome' = EqValue(a.obj.hand, b.obj.hand)
        /\ UNCHANGED stats

(* The value of __le__ for the two classified hands: that of __lt__ if it  *)
(* is NotImplemented or true, else that of __eq__.                         *)
LeValue(hand, other_hand) ==
    LET cmp_lt == LtValue(hand, other_hand)
    IN  IF cmp_lt = "NotImplemented" \/ cmp_lt = "True" THEN cmp_lt
        ELSE EqValue(hand, other_hand)

(* this <= other *)
DoLe ==
    LET a == Classify(this, TRUE)
        b == Classify(other, TRUE)
    IN  /\ this' = a.obj
        /\ other' = b.obj
        /\ call' = "__le__"
        /\ outcome' = LeValue(a.obj.hand, b.obj.hand)
        /\ UNCHANGED stats

(* this > other: PokerHand has no __gt__, so that Python evaluates the     *)
(* reflected other.__lt__(this), which classifies other first.             *)
DoGt ==
    LET b == Classify(other, TRUE)
        a == Classify(this, TRUE)
    IN  /\ this' = a.obj
        /\ other' = b.obj
        /\ call' = "__gt__"
        /\ outcome' = LtValue(b.obj.hand, a.obj.hand)
        /\ UNCHANGED stats

(* this == this: self and other are the same object, classified twice *)
DoEqSelf ==
    LET a == Classify(Classify(this, TRUE).obj, TRUE)
    IN  /\ this' = a.obj
        /\ call' = "__eq__(self)"
        /\ outcome' = EqValue(a.obj.hand, a.obj.hand)
        /\ UNCHANGED <<other, stats>>

NextCmp == DoLt \/ DoEq \/ DoLe \/ DoGt \/ DoEqSelf

SpecCmp == InitCmp /\ [][NextCmp]_vars

-----------------------------------------------------------------------------
(* The life of a hand: it is constructed, with or without cards, cards are *)
(* added to it in deal order, it is classified, asked for a category,      *)
(* cleared, and compared with another hand.                                *)

(* add_card(card) for a card of type Card: value is what it returns *)
AddCard(obj, card) ==
    IF obj.normal_flow /\ Len(obj.cards) = MAX_NUM_CARDS
    THEN [obj |-> obj, value |-> FALSE]
    ELSE [obj |-> [obj EXCEPT !.cards = Append(obj.cards, card)], value |-> TRUE]

(* has(htype) for an int htype of 0 to 8: classify() and then the test of  *)
(* the category.                                                           *)
Has(obj, htype) ==
    LET r == Classify(obj, TRUE)
    IN  [obj |-> r.obj, value |-> r.obj.hand # <<>> /\ htype = r.obj.hand[1]]

(* self == other for two different objects: __eq__, then the reflected     *)
(* __eq__, and, both being NotImplemented, the comparison of identities.   *)
OperatorEq(hand, other_hand) ==
    IF EqValue(hand, other_hand) # "NotImplemented" THEN EqValue(hand, other_hand)
    ELSE IF EqValue(other_hand, hand) # "NotImplemented" THEN EqValue(other_hand, hand)
    ELSE "False"

(* self > other: PokerHand and Hand define no __gt__, so that the          *)
(* reflected other.__lt__(self) decides; NotImplemented from it makes      *)
(* Python raise TypeError.                                                 *)
OperatorGt(hand, other_hand) ==
    IF LtValue(other_hand, hand) # "NotImplemented" THEN LtValue(other_hand, hand)
    ELSE "TypeError"

(* compare(other) for another PokerHand object: the line it adds to the    *)
(* description, or the exception that leaves it.  result is None, the      *)
(* value that line 150 tests for, is the value of neither operator.        *)
Compare(hand, other_hand) ==
    LET result == OperatorEq(hand, other_hand)
    IN  IF result = "True" THEN "the two hands are equal"
        ELSE LET greater == OperatorGt(hand, other_hand)
             IN  IF greater = "True" THEN "'this hand' is better"
                 ELSE IF greater = "False" THEN "'other hand' is better"
                 ELSE IF greater = "None" THEN "one or both hands are in error"
                 ELSE greater

(* The place of a card in the deal order *)
Pos(card) == CHOOSE i \in 1..Len(DeckOrder) : DeckOrder[i] = card

LifeOthers == { Ctor(SubSeq(DeckOrder, 1, k)) : k \in {MIN_NUM_CARDS - 2, MIN_NUM_CARDS} }

(* The hand is constructed from up to one card more than a hand may hold *)
InitLife ==
    /\ this \in { Ctor(cards) : cards \in Deals(LifeDeckSize, 0, MAX_NUM_CARDS + 1) }
    /\ other \in LifeOthers
    /\ call = "__init__"
    /\ outcome = "None"
    /\ stats = NoStats

(* this.add_card(card), the card being dealt after those the hand holds *)
DoAddCard ==
    \E j \in 1..LifeDeckSize :
        /\ this.cards # <<>> => j > Pos(this.cards[Len(this.cards)])
        /\ LET r == AddCard(this, DeckOrder[j])
           IN  /\ this' = r.obj
               /\ call' = "add_card"
               /\ outcome' = BoolStr(r.value)
        /\ UNCHANGED <<other, stats>>

(* this.has(htype) *)
DoHas ==
    \E htype \in HIGH_CARD..STRAIGHT_FLUSH :
        LET r == Has(this, htype)
        IN  /\ this' = r.obj
            /\ call' = "has"
            /\ outcome' = BoolStr(r.value)
            /\ UNCHANGED <<other, stats>>

(* this.compare(other): both hands are classified by the == of line 140 *)
DoCompare ==
    LET a == Classify(this, TRUE)
        b == Classify(other, TRUE)
    IN  /\ this' = a.obj
        /\ other' = b.obj
        /\ call' = "compare"
        /\ outcome' = Compare(a.obj.hand, b.obj.hand)
        /\ UNCHANGED stats

NextLife ==
    DoAddCard \/ DoClassify \/ DoHas \/ DoClear \/ DoLt \/ DoEq \/ DoCompare

SpecLife == InitLife /\ [][NextLife]_vars

-----------------------------------------------------------------------------
(* PokerStats and its base class AdderWithRefCount.  stats maps each       *)
(* PokerStats object to its attributes; froms and tos hold the objects     *)
(* that the weak references refer to.                                      *)

StatsObjs == {"a", "b"}

(* The categories that the dealt hands of the model fall into *)
DealtTypes == {HIGH_CARD, PAIR}

(* The values of cards_per_hand that are passed, valid or not *)
CardsInputs == (MIN_NUM_CARDS - 1)..(MAX_NUM_CARDS + 1)

(* The operation flags that are passed to print: NONE, UPDATE, APPEND and  *)
(* the two nearest values that are no operation                            *)
OperationInputs == (NONE - 1)..(APPEND + 1)

(* PokerStats.__init__ *)
NewStats ==
    [iterations     |-> ITERATIONS,
     cards_per_hand |-> MAX_NUM_CARDS,
     operation      |-> UPDATE,
     hands_per_deck |-> CARDS_PER_DECK \div MAX_NUM_CARDS,
     histogram      |-> <<>>,
     samples        |-> 0,
     froms          |-> <<>>,
     tos            |-> <<>>]

(* Mutant of ParamError: the operation flag is not validated. *)
ParamError_NoOperation(iterations, cards_per_hand, operation) ==
    \/ iterations < 1
    \/ ~(MIN_NUM_CARDS <= cards_per_hand /\ cards_per_hand <= MAX_NUM_CARDS)

(* _param_error for int parameters: TRUE if there is an error *)
ParamError(iterations, cards_per_hand, operation) ==
    \/ iterations < 1
    \/ ~(MIN_NUM_CARDS <= cards_per_hand /\ cards_per_hand <= MAX_NUM_CARDS)
    \/ operation \notin NONE..APPEND

(* PokerStats._is_add *)
IsAdd(obj, other_obj) ==
    /\ obj.iterations = other_obj.iterations
    /\ obj.cards_per_hand = other_obj.cards_per_hand
    /\ obj.operation = other_obj.operation

(* PokerStats.__eq__ for two PokerStats objects *)
StatsEq(obj, other_obj) ==
    IsAdd(obj, other_obj) /\ obj.histogram = other_obj.histogram

(* Two weak references are equal if they are the same or their referents   *)
(* are equal.                                                              *)
RefEq(st, x, y) == x = y \/ StatsEq(st[x], st[y])

(* weakref.ref(x) in refs *)
RefIn(st, x, refs) == \E i \in 1..Len(refs) : RefEq(st, refs[i], x)

(* refs.remove(weakref.ref(x)): the first reference equal to it goes *)
RECURSIVE RemoveRef(_, _, _)
RemoveRef(st, refs, x) ==
    IF refs = <<>> THEN <<>>
    ELSE IF RefEq(st, refs[1], x) THEN Tail(refs)
    ELSE <<refs[1]>> \o RemoveRef(st, Tail(refs), x)

(* for wref in refs: wref().tos.remove(weakref.ref(self)) *)
RECURSIVE DropFromTos(_, _, _)
DropFromTos(st, refs, self) ==
    IF refs = <<>> THEN st
    ELSE DropFromTos([st EXCEPT ![refs[1]].tos = RemoveRef(st, @, self)],
                     Tail(refs), self)

(* for wref in refs: wref().froms.remove(weakref.ref(self)) *)
RECURSIVE DropFromFroms(_, _, _)
DropFromFroms(st, refs, self) ==
    IF refs = <<>> THEN st
    ELSE DropFromFroms([st EXCEPT ![refs[1]].froms = RemoveRef(st, @, self)],
                       Tail(refs), self)

(* AdderWithRefCount.clear *)
AdderClear(st, self) ==
    IF st[self].froms # <<>> \/ st[self].tos # <<>>
    THEN LET st1 == DropFromTos(st, st[self].froms, self)
             st2 == DropFromFroms(st1, st[self].tos, self)
         IN  [st2 EXCEPT ![self].froms = <<>>, ![self].tos = <<>>]
    ELSE st

(* PokerStats.__clear *)
StatsClear(st, self) ==
    AdderClear([st EXCEPT ![self].histogram = <<>>, ![self].samples = 0], self)

(* Mutant of Set: the statistics of earlier runs are kept. *)
Set_NoClear(st, self, iterations, cards_per_hand, operation) ==
    LET obj     == st[self]
        differ  == \/ obj.iterations # iterations
                   \/ obj.cards_per_hand # cards_per_hand
                   \/ obj.operation # operation
        st1     == IF differ
                   THEN [st EXCEPT ![self].iterations = iterations,
                                   ![self].cards_per_hand = cards_per_hand,
                                   ![self].operation = operation,
                                   ![self].hands_per_deck =
                                       CARDS_PER_DECK \div cards_per_hand]
                   ELSE st
    IN  IF differ /\ ParamError(iterations, cards_per_hand, operation)
        THEN [st |-> st, value |-> FALSE]
        ELSE IF /\ differ
                /\ operation = APPEND
                /\ obj.cards_per_hand # cards_per_hand
                /\ obj.histogram # <<>>
        THEN [st |-> st, value |-> FALSE]
        ELSE [st |-> st1, value |-> TRUE]

(* Mutant of Set: an append with another number of cards per hand is not  *)
(* rejected.                                                               *)
Set_NoAppendCheck(st, self, iterations, cards_per_hand, operation) ==
    LET obj     == st[self]
        differ  == \/ obj.iterations # iterations
                   \/ obj.cards_per_hand # cards_per_hand
                   \/ obj.operation # operation
        st1     == IF differ
                   THEN [st EXCEPT ![self].iterations = iterations,
                                   ![self].cards_per_hand = cards_per_hand,
                                   ![self].operation = operation,
                                   ![self].hands_per_deck =
                                       CARDS_PER_DECK \div cards_per_hand]
                   ELSE st
    IN  IF differ /\ ParamError(iterations, cards_per_hand, operation)
        THEN [st |-> st, value |-> FALSE]
        ELSE [st |-> IF st1[self].samples # 0 /\ st1[self].operation = UPDATE
                     THEN StatsClear(st1, self) ELSE st1,
              value |-> TRUE]

(* Mutant of Set: the statistics are cleared whatever the operation. *)
Set_AppendClears(st, self, iterations, cards_per_hand, operation) ==
    LET obj     == st[self]
        differ  == \/ obj.iterations # iterations
                   \/ obj.cards_per_hand # cards_per_hand
                   \/ obj.operation # operation
        st1     == IF differ
                   THEN [st EXCEPT ![self].iterations = iterations,
                                   ![self].cards_per_hand = cards_per_hand,
                                   ![self].operation = operation,
                                   ![self].hands_per_deck =
                                       CARDS_PER_DECK \div cards_per_hand]
                   ELSE st
    IN  IF differ /\ ParamError(iterations, cards_per_hand, operation)
        THEN [st |-> st, value |-> FALSE]
        ELSE IF /\ differ
                /\ operation = APPEND
                /\ obj.cards_per_hand # cards_per_hand
                /\ obj.histogram # <<>>
        THEN [st |-> st, value |-> FALSE]
        ELSE [st |-> IF st1[self].samples # 0
                     THEN StatsClear(st1, self) ELSE st1,
              value |-> TRUE]

(* PokerStats.__set: value is what it returns *)
Set(st, self, iterations, cards_per_hand, operation) ==
    LET obj     == st[self]
        differ  == \/ obj.iterations # iterations
                   \/ obj.cards_per_hand # cards_per_hand
                   \/ obj.operation # operation
        st1     == IF differ
                   THEN [st EXCEPT ![self].iterations = iterations,
                                   ![self].cards_per_hand = cards_per_hand,
                                   ![self].operation = operation,
                                   ![self].hands_per_deck =
                                       CARDS_PER_DECK \div cards_per_hand]
                   ELSE st
    IN  IF differ /\ ParamError(iterations, cards_per_hand, operation)
        THEN [st |-> st, value |-> FALSE]
        ELSE IF /\ differ
                /\ operation = APPEND
                /\ obj.cards_per_hand # cards_per_hand
                /\ obj.histogram # <<>>
        THEN [st |-> st, value |-> FALSE]
        ELSE [st |-> IF st1[self].samples # 0 /\ st1[self].operation = UPDATE
                     THEN StatsClear(st1, self) ELSE st1,
              value |-> TRUE]

(* Lines 220 to 224 of __generate for the hands of a run, of which         *)
(* counts[t] are of category t: each hand holds cards_per_hand cards, so   *)
(* that classify(normal_flow = False) returns a hand and its category is   *)
(* counted.                                                                *)
CountHands(histogram, counts) ==
    LET dealt == { t \in DOMAIN counts : counts[t] > 0 }
    IN  [t \in DOMAIN histogram \cup dealt |->
            (IF t \in DOMAIN histogram THEN histogram[t] ELSE 0) +
            (IF t \in dealt THEN counts[t] ELSE 0)]

(* The ways in which the n dealt hands of a run fall into the categories   *)
(* in the model: all of them are a high card, or one of them is a pair.    *)
Dealt(n) ==
    { counts \in [DealtTypes -> 0..n] :
          counts[HIGH_CARD] + counts[PAIR] = n /\ counts[PAIR] \in {0, 1} }

(* Mutant of Generate: the samples of a run are its iterations. *)
Generate_Iterations(st, self, iterations, cards_per_hand, operation, counts) ==
    IF operation # NONE
    THEN LET r == Set(st, self, iterations, cards_per_hand, operation)
         IN  IF r.value
             THEN [st |-> [r.st EXCEPT
                              ![self].histogram = CountHands(@, counts),
                              ![self].samples = @ + r.st[self].iterations],
                   value |-> TRUE]
             ELSE [st |-> r.st, value |-> FALSE]
    ELSE [st |-> st, value |-> TRUE]

(* PokerStats.__generate: counts tells how the hands of the run, which are *)
(* random, fall into the categories.                                       *)
Generate(st, self, iterations, cards_per_hand, operation, counts) ==
    IF operation # NONE
    THEN LET r == Set(st, self, iterations, cards_per_hand, operation)
         IN  IF r.value
             THEN [st |-> [r.st EXCEPT
                              ![self].histogram = CountHands(@, counts),
                              ![self].samples =
                                  @ + r.st[self].iterations * r.st[self].hands_per_deck],
                   value |-> TRUE]
             ELSE [st |-> r.st, value |-> FALSE]
    ELSE [st |-> st, value |-> TRUE]

(* Mutant of OpAdd: the samples of the other object are not added. *)
OpAdd_NoSamples(st, self, other_obj) ==
    [st EXCEPT ![self].histogram = CountHands(@, st[other_obj].histogram)]

(* PokerStats._op_add *)
OpAdd(st, self, other_obj) ==
    [st EXCEPT ![self].histogram = CountHands(@, st[other_obj].histogram),
               ![self].samples = @ + st[other_obj].samples]

(* Mutant of AdderParamError: an object may be added to itself. *)
AdderParamError_NoSelf(st, self, other_obj) ==
    \/ ~IsAdd(st[self], st[other_obj])
    \/ RefIn(st, other_obj, st[self].froms)
    \/ \E i \in 1..Len(st[other_obj].froms) :
          \/ st[other_obj].froms[i] = self
          \/ RefIn(st, st[other_obj].froms[i], st[self].froms)

(* AdderWithRefCount.__param_error with stdout = True, for a PokerStats    *)
(* other: TRUE if there is an error.                                       *)
AdderParamError(st, self, other_obj) ==
    \/ other_obj = self
    \/ ~IsAdd(st[self], st[other_obj])
    \/ RefIn(st, other_obj, st[self].froms)
    \/ \E i \in 1..Len(st[other_obj].froms) :
          \/ st[other_obj].froms[i] = self
          \/ RefIn(st, st[other_obj].froms[i], st[self].froms)

(* for wref in refs: wref().tos.append(weakref.ref(self)) *)
RECURSIVE AppendToTos(_, _, _)
AppendToTos(st, refs, self) ==
    IF refs = <<>> THEN st
    ELSE AppendToTos([st EXCEPT ![refs[1]].tos = Append(@, self)], Tail(refs), self)

(* AdderWithRefCount.__op_add with op_plus = False, as += calls it *)
AdderOpAdd(st, self, other_obj) ==
    IF AdderParamError(st, self, other_obj) THEN st
    ELSE IF st[other_obj].samples # 0
    THEN LET st1 == OpAdd(st, self, other_obj)
             st2 == [st1 EXCEPT ![self].froms = Append(@, other_obj)]
             st3 == [st2 EXCEPT ![other_obj].tos = Append(@, self)]
             st4 == [st3 EXCEPT ![self].froms = @ \o st3[other_obj].froms]
         IN  AppendToTos(st4, st4[other_obj].froms, self)
    ELSE st

InitStats ==
    /\ this = Ctor(<<>>)
    /\ other = Ctor(<<>>)
    /\ call = <<"__init__">>
    /\ outcome = "None"
    /\ stats = [o \in StatsObjs |-> NewStats]

(* self.update(iterations, cards_per_hand) *)
RunUpdate(self) ==
    \E iterations \in 0..MaxIterations, cards_per_hand \in CardsInputs :
        \E counts \in Dealt(iterations * (CARDS_PER_DECK \div cards_per_hand)) :
            LET r == Generate(stats, self, iterations, cards_per_hand, UPDATE, counts)
            IN  /\ r.st[self].samples <= MaxSamples
                /\ stats' = r.st
                /\ call' = <<"update", self, iterations, cards_per_hand>>
                /\ outcome' = BoolStr(r.value)
                /\ UNCHANGED <<this, other>>

DoUpdate == \E self \in StatsObjs : RunUpdate(self)

(* self.append(iterations, cards_per_hand) *)
RunAppend(self) ==
    \E iterations \in 0..MaxIterations, cards_per_hand \in CardsInputs :
        \E counts \in Dealt(iterations * (CARDS_PER_DECK \div cards_per_hand)) :
            LET r == Generate(stats, self, iterations, cards_per_hand, APPEND, counts)
            IN  /\ r.st[self].samples <= MaxSamples
                /\ stats' = r.st
                /\ call' = <<"append", self, iterations, cards_per_hand>>
                /\ outcome' = BoolStr(r.value)
                /\ UNCHANGED <<this, other>>

DoAppend == \E self \in StatsObjs : RunAppend(self)

(* self.print(operation, iterations, cards_per_hand): what is written to  *)
(* standard output is not part of the state.                               *)
RunPrint(self) ==
    \E operation \in OperationInputs,
       iterations \in 0..MaxIterations, cards_per_hand \in CardsInputs :
        \E counts \in Dealt(iterations * (CARDS_PER_DECK \div cards_per_hand)) :
            LET r == Generate(stats, self, iterations, cards_per_hand, operation, counts)
            IN  /\ r.st[self].samples <= MaxSamples
                /\ stats' = r.st
                /\ call' = <<"print", self, operation, iterations, cards_per_hand>>
                /\ outcome' = BoolStr(r.value)
                /\ UNCHANGED <<this, other>>

(* self.clear() *)
RunClear(self) ==
    /\ stats' = Set(stats, self, ITERATIONS, MAX_NUM_CARDS, UPDATE).st
    /\ call' = <<"clear", self>>
    /\ outcome' = "None"
    /\ UNCHANGED <<this, other>>

DoStatsClear == \E self \in StatsObjs : RunClear(self)

(* self += other *)
DoIAdd ==
    \E self \in StatsObjs, other_obj \in StatsObjs :
        /\ AdderOpAdd(stats, self, other_obj)[self].samples <= MaxSamples
        /\ stats' = AdderOpAdd(stats, self, other_obj)
        /\ call' = <<"+=", self, other_obj>>
        /\ outcome' = IF AdderParamError(stats, self, other_obj) THEN "error" ELSE "None"
        /\ UNCHANGED <<this, other>>

NextStats == DoUpdate \/ DoAppend \/ DoStatsClear \/ DoIAdd

SpecStats == InitStats /\ [][NextStats]_vars

(* The runs of one object alone, those that print starts among them *)
NextRun == RunUpdate("a") \/ RunAppend("a") \/ RunPrint("a") \/ RunClear("a")

SpecRun == InitStats /\ [][NextRun]_vars

(* The operator +.  Three objects a, b and c hold the statistics of a run  *)
(* each, and the program                                                   *)
(*     ab = a + b; ab_c = ab + c; bc = b + c; a_bc = a + bc;               *)
(*     ac = a + c; ac_b = ac + b                                           *)
(* is run with its statements in any order that defines the operands       *)
(* first.                                                                  *)
MergeObjs == {"a", "b", "c"}

SumNames ==
    (<<"a", "b">> :> "ab") @@ (<<"ab", "c">> :> "ab_c") @@
    (<<"b", "c">> :> "bc") @@ (<<"a", "bc">> :> "a_bc") @@
    (<<"a", "c">> :> "ac") @@ (<<"ac", "b">> :> "ac_b")

(* The values of cards_per_hand of the runs of a, b and c *)
MergeCards == {MAX_NUM_CARDS - 1, MAX_NUM_CARDS}

(* The ways in which the n dealt hands of the run of a, b or c fall into   *)
(* the categories: up to two of them are a pair, the others a high card.   *)
MergeDealt(n) ==
    { counts \in [DealtTypes -> 0..n] :
          counts[HIGH_CARD] + counts[PAIR] = n /\ counts[PAIR] \in 0..2 }

(* A PokerStats object after update(iterations, cards_per_hand) *)
Generated ==
    { Generate([o \in {"a"} |-> NewStats], "a", iterations, cards_per_hand,
               UPDATE, counts).st["a"] :
          <<iterations, cards_per_hand, counts>> \in
              { <<i, n, k>> \in (1..MaxIterations) \X MergeCards \X
                                [DealtTypes -> 0..(MaxIterations * CARDS_PER_DECK)] :
                    k \in MergeDealt(i * (CARDS_PER_DECK \div n)) } }

(* for wref in refs: wref().froms.append(weakref.ref(self)) *)
RECURSIVE AppendToFroms(_, _, _)
AppendToFroms(st, refs, self) ==
    IF refs = <<>> THEN st
    ELSE AppendToFroms([st EXCEPT ![refs[1]].froms = Append(@, self)],
                       Tail(refs), self)

(* AdderWithRefCount.__deepcopy__: new is the copy of self *)
DeepCopy(st, self, new) ==
    LET obj == [st[self] EXCEPT
                   !.froms = IF st[self].samples # 0 THEN Append(@, self) ELSE @]
        st1 == (new :> obj) @@ st
        st2 == AppendToTos(st1, st1[new].froms, new)
    IN  AppendToFroms(st2, st2[new].tos, new)

(* AdderWithRefCount.__op_add with op_plus = True, as + calls it: new is   *)
(* the object returned; with a parameter error NotImplemented is returned, *)
(* on which Python raises TypeError, and nothing is changed.               *)
AdderAdd(st, self, other_obj, new) ==
    IF AdderParamError(st, self, other_obj) THEN st
    ELSE LET st0 == DeepCopy(st, self, new)
         IN  IF st0[other_obj].samples # 0
             THEN LET st1 == OpAdd(st0, new, other_obj)
                      st2 == [st1 EXCEPT ![new].froms = Append(@, other_obj)]
                      st3 == [st2 EXCEPT ![other_obj].tos = Append(@, new)]
                      st4 == [st3 EXCEPT ![new].froms = @ \o st3[other_obj].froms]
                  IN  AppendToTos(st4, st4[other_obj].froms, new)
             ELSE st0

InitMerge ==
    /\ this = Ctor(<<>>)
    /\ other = Ctor(<<>>)
    /\ call = <<"__init__">>
    /\ outcome = "None"
    /\ stats \in [MergeObjs -> Generated]

(* new = self + other_obj *)
DoAdd ==
    \E p \in DOMAIN SumNames :
        /\ p[1] \in DOMAIN stats
        /\ p[2] \in DOMAIN stats
        /\ SumNames[p] \notin DOMAIN stats
        /\ stats' = AdderAdd(stats, p[1], p[2], SumNames[p])
        /\ call' = <<"+", p[1], p[2]>>
        /\ outcome' = IF AdderParamError(stats, p[1], p[2])
                      THEN "TypeError" ELSE SumNames[p]
        /\ UNCHANGED <<this, other>>

NextMerge == DoAdd

SpecMerge == InitMerge /\ [][NextMerge]_vars

-----------------------------------------------------------------------------
(* Tic-tac-toe.  this is the TicTacToe object, call the statement of main  *)
(* that is run next, and outcome what game_over printed last.              *)

(* A square that holds neither sign: the code keeps its number in it. *)
FREE == "free"

Squares == (0..(STRIKE - 1)) \X (0..(STRIKE - 1))

(* TicTacToe.__init__: the computer has placed 'X' in the center. *)
NewBoard ==
    [row \in 0..(STRIKE - 1) |->
        [col \in 0..(STRIKE - 1) |-> IF row = 1 /\ col = 1 THEN "X" ELSE FREE]]

(* TicTacToe.__winner *)
Winner(board, sign) ==
    \/ board[0][0] = sign /\ board[1][1] = sign /\ board[2][2] = sign
    \/ board[2][0] = sign /\ board[1][1] = sign /\ board[0][2] = sign
    \/ \E i \in 0..(STRIKE - 1) :
          \/ board[i][0] = sign /\ board[i][1] = sign /\ board[i][2] = sign
          \/ board[0][i] = sign /\ board[1][i] = sign /\ board[2][i] = sign

(* TicTacToe.__free_fields, as a set *)
FreeFields(board) == { sq \in Squares : board[sq[1]][sq[2]] \notin {"O", "X"} }

(* TicTacToe.__tie *)
Tie(board) == \A sq \in Squares : board[sq[1]][sq[2]] \in {"O", "X"}

(* divmod(num - 1, STRIKE) *)
Coordinates(num) == <<(num - 1) \div STRIKE, (num - 1) % STRIKE>>

(* The values of randrange(1, STRIKE ** 2) *)
Choices == 1..(STRIKE * STRIKE - 1)

(* The numbers the user enters, among them two that are no square *)
Moves == 0..(STRIKE * STRIKE + 1)

InitGame ==
    /\ this = [board |-> NewBoard]
    /\ other = Ctor(<<>>)
    /\ call = "game_over('X')"
    /\ outcome = "None"
    /\ stats = NoStats

(* tic_tac_toe.game_over(sign) in main, and the break behind it *)
DoGameOver ==
    \E sign \in {"X", "O"} :
        /\ call = IF sign = "X" THEN "game_over('X')" ELSE "game_over('O')"
        /\ outcome' = IF Winner(this.board, sign)
                      THEN (IF sign = "O" THEN "You win!" ELSE "I win!")
                      ELSE IF Tie(this.board) THEN "It's a tie!"
                      ELSE "False"
        /\ call' = IF Winner(this.board, sign) \/ Tie(this.board) THEN "return"
                   ELSE IF sign = "X" THEN "enter_move" ELSE "draw_move"
        /\ UNCHANGED <<this, other, stats>>

(* One pass of the loop of enter_move: a number that is no free square is  *)
(* answered with the list of the free ones and asked for again.            *)
DoEnterMove ==
    \E num \in Moves :
        LET sq == Coordinates(num)
        IN  /\ call = "enter_move"
            /\ IF sq \in FreeFields(this.board)
               THEN /\ this' = [this EXCEPT !.board[sq[1]][sq[2]] = "O"]
                    /\ call' = "game_over('O')"
               ELSE UNCHANGED <<this, call>>
            /\ UNCHANGED <<other, outcome, stats>>

(* One pass of the loop of draw_move: a choice that is no free square is   *)
(* drawn again.                                                            *)
DoDrawMove ==
    \E choice \in Choices :
        LET sq == Coordinates(choice)
        IN  /\ call = "draw_move"
            /\ IF sq \in FreeFields(this.board)
               THEN /\ this' = [this EXCEPT !.board[sq[1]][sq[2]] = "X"]
                    /\ call' = "game_over('X')"
               ELSE UNCHANGED <<this, call>>
            /\ UNCHANGED <<other, outcome, stats>>

NextGame == DoGameOver \/ DoEnterMove \/ DoDrawMove

SpecGame == InitGame /\ [][NextGame]_vars

-----------------------------------------------------------------------------
(* What the claims speak of.                                               *)

CardSet(s) == { s[i] : i \in 1..Len(s) }

(* The hand holds 5 to 7 cards and the last call classified it. *)
Classified ==
    /\ Len(this.cards) \in MIN_NUM_CARDS..MAX_NUM_CARDS
    /\ call \in {"__init__", "classify"}
    /\ this.hand # <<>>

NormalClassified == Classified /\ this.normal_flow

Category == this.hand[1]
Primary == this.hand[2]
HasKicker == Len(this.hand) = MAXLEN_HAND
Kicker == IF HasKicker THEN this.hand[3] ELSE <<>>

(* The Ace outranks every other rank. *)
AceHigh(r) == IF r = ACE THEN 14 ELSE r

(* The number of cards of rank r in a set of cards *)
Count(F, r) == Cardinality({ c \in F : c.rank = r })

RanksOf(F) == { c.rank : c \in F }

(* The ranks of F hold a run of five consecutive ranks that starts at r    *)
(* (the run 10, J, Q, K, A starts at 10).                                  *)
RunAt(R, r) ==
    \A k \in 0..(SEQUENCE - 1) : (IF r + k = 14 THEN ACE ELSE r + k) \in R

(* The category of five cards under the standard rules of poker. *)
StdCategory(F) ==
    LET R        == RanksOf(F)
        flush    == \A c, d \in F : c.suit = d.suit
        straight == \E r \in 1..10 : RunAt(R, r)
        ofs(n)   == { r \in R : Count(F, r) = n }
    IN  IF straight /\ flush THEN STRAIGHT_FLUSH
        ELSE IF ofs(4) # {} THEN FOUR_OF_A_KIND
        ELSE IF ofs(3) # {} /\ ofs(2) # {} THEN FULL_HOUSE
        ELSE IF flush THEN FLUSH
        ELSE IF straight THEN STRAIGHT
        ELSE IF ofs(3) # {} THEN THREE_OF_A_KIND
        ELSE IF Cardinality(ofs(2)) = 2 THEN TWO_PAIR
        ELSE IF ofs(2) # {} THEN PAIR
        ELSE HIGH_CARD

FiveOf(F) == { G \in SUBSET F : Cardinality(G) = MIN_NUM_CARDS }

(* The highest category any five of the cards form. *)
BestCategory(F) ==
    LET found == { StdCategory(G) : G \in FiveOf(F) }
    IN  CHOOSE t \in found : \A u \in found : u <= t

(* C1: for every hand of 5, 6 or 7 unique cards, the category classify()   *)
(* returns is the highest of the 9 categories that any five cards of the   *)
(* hand form under the standard rules of poker.                            *)
C1_BestCategory ==
    Classified => Category = BestCategory(CardSet(this.cards))

(* A hand of 7 cards that holds a straight and a flush made of different   *)
(* cards has been classified.                                              *)
C1_Witness ==
    /\ Classified
    /\ Len(this.cards) = MAX_NUM_CARDS
    /\ Category = FLUSH
    /\ \E G \in FiveOf(CardSet(this.cards)) : StdCategory(G) = STRAIGHT

(* The only run of five consecutive ranks in the cards is 5-4-3-2-Ace. *)
OnlyWheel(F) ==
    /\ RunAt(RanksOf(F), 1)
    /\ \A r \in 2..10 : ~RunAt(RanksOf(F), r)

(* The five cards of the wheel can be taken from one suit. *)
WheelSuited(F) ==
    \E s \in { c.suit : c \in F } : RunAt(RanksOf({ c \in F : c.suit = s }), 1)

HasFlush(F) ==
    \E s \in { c.suit : c \in F } :
        Cardinality({ c \in F : c.suit = s }) >= MIN_NUM_CARDS

WheelRanks == <<5, 4, 3, 2, ACE>>

(* C2 as stated: a hand of 5 to 7 cards whose only run of five consecutive *)
(* ranks is 5-4-3-2-Ace is never classified as Straight, and never as      *)
(* StraightFlush if those five cards share a suit.                         *)
C2_NoWheel ==
    (Classified /\ OnlyWheel(CardSet(this.cards))) =>
        /\ Category # STRAIGHT
        /\ WheelSuited(CardSet(this.cards)) => Category # STRAIGHT_FLUSH

(* C2 amended: the wheel is detected.  A hand of 5 to 7 cards whose only   *)
(* run of five consecutive ranks is 5-4-3-2-Ace is classified as           *)
(* StraightFlush 5,4,3,2,A if those five cards share a suit, as Flush if   *)
(* it holds five cards of one suit otherwise, and as Straight 5,4,3,2,A in *)
(* every other case.                                                       *)
C2_WheelDetected ==
    (Classified /\ OnlyWheel(CardSet(this.cards))) =>
        IF WheelSuited(CardSet(this.cards))
        THEN Category = STRAIGHT_FLUSH /\ Ranks(Primary) = WheelRanks
        ELSE IF HasFlush(CardSet(this.cards))
        THEN Category = FLUSH
        ELSE Category = STRAIGHT /\ Ranks(Primary) = WheelRanks

(* A wheel of mixed suits has been classified as a straight. *)
C2_Witness ==
    /\ Classified
    /\ OnlyWheel(CardSet(this.cards))
    /\ ~HasFlush(CardSet(this.cards))
    /\ Category = STRAIGHT

(* C3: for every hand of 5, 6 or 7 cards classified in normal flow, the    *)
(* number of cards of the hand proper plus the number of cards of the rest *)
(* of hand is exactly 5, a missing rest of hand counting as 0.             *)
C3_FiveCards ==
    NormalClassified => Len(Primary) + Len(Kicker) = MIN_NUM_CARDS

(* A pair in a hand of 7 cards has been given a rest of hand of 3 cards. *)
C3_Witness ==
    /\ NormalClassified
    /\ Len(this.cards) = MAX_NUM_CARDS
    /\ Category = PAIR
    /\ Len(Kicker) = 3

FiveCardCategories == {STRAIGHT, FLUSH, FULL_HOUSE, STRAIGHT_FLUSH}

(* C4 as stated: for every valid 5-card input, classify() returns exactly  *)
(* one category and a hand proper of exactly 5 cards with no rest of hand. *)
C4_FiveCardPrimary ==
    (NormalClassified /\ Len(this.cards) = MIN_NUM_CARDS) =>
        /\ Category \in HIGH_CARD..STRAIGHT_FLUSH
        /\ Len(Primary) = MIN_NUM_CARDS
        /\ ~HasKicker

(* C4 amended: for every valid 5-card input, classify() returns exactly    *)
(* one category, and the hand proper and the rest of hand together are the *)
(* 5 cards of the input; the hand proper has exactly 5 cards, with no rest *)
(* of hand, exactly when the category is Straight, Flush, FullHouse or     *)
(* StraightFlush.                                                          *)
C4_FiveCardInput ==
    (NormalClassified /\ Len(this.cards) = MIN_NUM_CARDS) =>
        /\ Category \in HIGH_CARD..STRAIGHT_FLUSH
        /\ CardSet(Primary) \cup CardSet(Kicker) = CardSet(this.cards)
        /\ Len(Primary) + Len(Kicker) = MIN_NUM_CARDS
        /\ (Len(Primary) = MIN_NUM_CARDS /\ ~HasKicker) <=>
               Category \in FiveCardCategories

(* A hand of 5 cards has been classified as a high card with a rest of     *)
(* hand of 4 cards.                                                        *)
C4_Witness ==
    /\ NormalClassified
    /\ Len(this.cards) = MIN_NUM_CARDS
    /\ Category = HIGH_CARD
    /\ Len(Primary) = 1
    /\ Len(Kicker) = 4

(* C5 as stated: whenever classify() returns Straight, Flush, FullHouse,   *)
(* FourOfAKind or StraightFlush, the hand proper has 5 cards and there is  *)
(* no rest of hand.                                                        *)
C5_NoKickerWithFour ==
    (NormalClassified /\ Category \in FiveCardCategories \cup {FOUR_OF_A_KIND}) =>
        Len(Primary) = MIN_NUM_CARDS /\ ~HasKicker

(* C5 amended: whenever classify() returns Straight, Flush, FullHouse or   *)
(* StraightFlush, the hand proper has 5 cards and there is no rest of      *)
(* hand; whenever it returns FourOfAKind, the hand proper has 4 cards and  *)
(* the rest of hand has one.                                               *)
C5_NoKicker ==
    NormalClassified =>
        /\ Category \in FiveCardCategories =>
               Len(Primary) = MIN_NUM_CARDS /\ ~HasKicker
        /\ Category = FOUR_OF_A_KIND =>
               Len(Primary) = 4 /\ HasKicker /\ Len(Kicker) = 1

(* Four of a kind in a hand of 7 cards has been classified, with its rest  *)
(* of hand of one card.                                                    *)
C5_Witness ==
    /\ NormalClassified
    /\ Len(this.cards) = MAX_NUM_CARDS
    /\ Category = FOUR_OF_A_KIND
    /\ Len(Kicker) = 1

(* The hand is three cards of rank t and two cards of rank p. *)
ThreeAndTwo(F, t, p) ==
    /\ Cardinality(F) = MIN_NUM_CARDS
    /\ t # p
    /\ Count(F, t) = 3
    /\ Count(F, p) = 2

(* C6 as stated: a 5-card hand of three cards of one rank and two cards of *)
(* another rank yields FullHouse with the three equal-rank cards as the    *)
(* hand proper and the two cards of the pair as the rest of hand.          *)
C6_PairAsKicker ==
    \A t, p \in RanksOf(CardSet(this.cards)) :
        (NormalClassified /\ ThreeAndTwo(CardSet(this.cards), t, p)) =>
            /\ Category = FULL_HOUSE
            /\ Ranks(Primary) = <<t, t, t>>
            /\ Ranks(Kicker) = <<p, p>>

(* C6 amended: a 5-card hand of three cards of one rank and two cards of   *)
(* another rank yields FullHouse whose hand proper is the three equal-rank *)
(* cards followed by the two cards of the pair, with no rest of hand.      *)
C6_FullHouse ==
    \A t, p \in RanksOf(CardSet(this.cards)) :
        (NormalClassified /\ ThreeAndTwo(CardSet(this.cards), t, p)) =>
            /\ Category = FULL_HOUSE
            /\ Ranks(Primary) = <<t, t, t, p, p>>
            /\ CardSet(Primary) = CardSet(this.cards)
            /\ ~HasKicker

(* The hand 2,2,2,5,5 has been classified. *)
C6_Witness ==
    /\ NormalClassified
    /\ ThreeAndTwo(CardSet(this.cards), 2, 5)
    /\ Category = FULL_HOUSE

(* The Ace of the hand proper acts as the low card: the hand is the wheel. *)
AceActsLow == Category \in {STRAIGHT, STRAIGHT_FLUSH} /\ Ranks(Primary) = WheelRanks

(* Descending, the Ace being the highest rank. *)
Descending(rs) ==
    \A i \in 1..(Len(rs) - 1) : AceHigh(rs[i]) >= AceHigh(rs[i + 1])

PrimaryDescending == AceActsLow \/ Descending(Ranks(Primary))

(* C7 as stated: for every classified hand of 5 to 7 cards and every       *)
(* category, the hand proper is sorted in descending rank order, with an   *)
(* Ace first when it acts as the high card.                                *)
C7_Descending == Classified => PrimaryDescending

(* C7 amended: for every classified hand of 5 to 7 cards and every         *)
(* category but FullHouse, the hand proper is sorted in descending rank    *)
(* order, with an Ace first when it acts as the high card; the hand proper *)
(* of a FullHouse is its three of a kind followed by its pair, whichever   *)
(* of the two ranks is higher.                                             *)
C7_DescendingButFullHouse ==
    Classified =>
        IF Category = FULL_HOUSE
        THEN /\ Len(Primary) = MIN_NUM_CARDS
             /\ Primary[1].rank = Primary[2].rank
             /\ Primary[2].rank = Primary[3].rank
             /\ Primary[3].rank # Primary[4].rank
             /\ Primary[4].rank = Primary[5].rank
        ELSE PrimaryDescending

(* A flush of a hand of 7 cards has been classified with its Ace first. *)
C7_Witness ==
    /\ Classified
    /\ Len(this.cards) = MAX_NUM_CARDS
    /\ Category = FLUSH
    /\ Primary[1].rank = ACE

(* C8: whenever the hand proper has fewer than 5 cards, the rest of hand   *)
(* is exactly the (5 - len) highest-ranked cards of the hand that are not  *)
(* in the hand proper, the Ace being the highest, in descending order with *)
(* an Ace first; no card is in both.                                       *)
C8_Kicker ==
    (NormalClassified /\ Len(Primary) < MIN_NUM_CARDS) =>
        LET others == CardSet(this.cards) \ CardSet(Primary)
            kicker == CardSet(Kicker)
        IN  /\ HasKicker
            /\ Len(Kicker) = MIN_NUM_CARDS - Len(Primary)
            /\ Cardinality(kicker) = Len(Kicker)
            /\ kicker \subseteq others
            /\ Descending(Ranks(Kicker))
            /\ \A c \in others \ kicker : \A k \in kicker :
                   AceHigh(c.rank) <= AceHigh(k.rank)

(* A pair of a hand of 7 cards has been classified; an Ace leads its rest  *)
(* of hand, and two cards were left out.                                   *)
C8_Witness ==
    /\ NormalClassified
    /\ Len(this.cards) = MAX_NUM_CARDS
    /\ Category = PAIR
    /\ Len(Kicker) = 3
    /\ Kicker[1].rank = ACE

PairRanks(F) == { r \in RanksOf(F) : Count(F, r) = 2 }

(* Three pairs and neither three nor four of a kind. *)
ThreePairs(F) ==
    /\ Cardinality(PairRanks(F)) = 3
    /\ \A r \in RanksOf(F) : Count(F, r) <= 2

(* The highest rank of a non-empty set of ranks, the Ace being the highest *)
Highest(R) == CHOOSE r \in R : \A q \in R : AceHigh(q) <= AceHigh(r)

(* C9: when a hand of 6 or 7 cards holds three pairs and no three of a     *)
(* kind, four of a kind, straight or flush, classify() returns TwoPair;    *)
(* its hand proper is the four cards of the two highest pairs, a pair of   *)
(* Aces being the highest, and its rest of hand is the single highest      *)
(* remaining card.                                                         *)
C9_ThreePairs ==
    (NormalClassified /\ ThreePairs(CardSet(this.cards))) =>
        LET F      == CardSet(this.cards)
            first  == Highest(PairRanks(F))
            second == Highest(PairRanks(F) \ {first})
            others == F \ CardSet(Primary)
        IN  /\ Category = TWO_PAIR
            /\ Ranks(Primary) = <<first, first, second, second>>
            /\ Len(Kicker) = 1
            /\ Kicker[1] \in others
            /\ Kicker[1].rank = Highest(RanksOf(others))

(* Three pairs and a seventh card that outranks the lowest pair have been  *)
(* classified.                                                             *)
C9_Witness ==
    /\ NormalClassified
    /\ Len(this.cards) = MAX_NUM_CARDS
    /\ ThreePairs(CardSet(this.cards))
    /\ Category = TWO_PAIR
    /\ Kicker[1].rank \notin PairRanks(CardSet(this.cards))

-----------------------------------------------------------------------------
(* The comparator.                                                         *)

(* The ranks of the hand proper, then of the rest of hand *)
HandRanks(hand) ==
    Ranks(hand[2]) \o (IF Len(hand) = MAXLEN_HAND THEN Ranks(hand[3]) ELSE <<>>)

(* The order the claim describes: the lower category, or the same category *)
(* and the lower rank at the first position where the ranks differ, the    *)
(* Ace outranking every other rank.                                        *)
Lower(hand, other_hand) ==
    LET a == HandRanks(hand)
        b == HandRanks(other_hand)
    IN  \/ hand[1] < other_hand[1]
        \/ /\ hand[1] = other_hand[1]
           /\ \E i \in 1..Min(Len(a), Len(b)) :
                 /\ AceHigh(a[i]) < AceHigh(b[i])
                 /\ \A j \in 1..(i - 1) : a[j] = b[j]

(* C10: for any two classified hands a and b, a < b holds exactly when a's *)
(* category is lower than b's, or the categories are equal and, at the     *)
(* first position where the ranks of the hand proper (then of the rest of  *)
(* hand) differ, a's rank is lower than b's, rank 1 (Ace) outranking every *)
(* other rank and two Aces tying.                                          *)
C10_LessThan ==
    call = "__lt__" =>
        /\ outcome \in {"True", "False"}
        /\ outcome = "True" <=> Lower(this.hand, other.hand)

(* this < other has been decided, in favour of an Ace, by the rest of hand *)
(* of two hands of the same category with the same ranks in the hand       *)
(* proper.                                                                 *)
C10_Witness ==
    /\ call = "__lt__"
    /\ outcome = "True"
    /\ this.hand[1] = other.hand[1]
    /\ Ranks(this.hand[2]) = Ranks(other.hand[2])
    /\ \E i \in 1..Len(other.hand[3]) :
          /\ other.hand[3][i].rank = ACE
          /\ this.hand[3][i].rank # ACE
          /\ \A j \in 1..(i - 1) : this.hand[3][j].rank = other.hand[3][j].rank

-----------------------------------------------------------------------------
(* The algebra of the comparator.                                          *)

(* The calls that compare this with other *)
CmpCalls == {"__lt__", "__eq__", "__le__", "__gt__"}

(* How many of a < b, a == b and b < a hold of the hands a and b *)
HowMany(a, b) ==
    (IF LtValue(a, b) = "True" THEN 1 ELSE 0) +
    (IF EqValue(a, b) = "True" THEN 1 ELSE 0) +
    (IF LtValue(b, a) = "True" THEN 1 ELSE 0)

(* C11: for any classified hands a and b of 5 to 7 cards, a == a holds and *)
(* exactly one of a < b, a == b, b < a holds, so that the comparison of    *)
(* (a, b) and that of (b, a) give inverse results: a > b is what neither   *)
(* a < b nor a == b is, and a < b is what neither a > b nor a == b is.     *)
C11_Trichotomy ==
    LET a == this.hand
        b == other.hand
    IN  /\ call = "__eq__(self)" => outcome = "True"
        /\ call \in CmpCalls =>
              /\ outcome \in {"True", "False"}
              /\ EqValue(a, a) = "True"
              /\ EqValue(b, b) = "True"
              /\ HowMany(a, b) = 1
              /\ EqValue(a, b) = EqValue(b, a)
        /\ call = "__gt__" =>
              (outcome = "True" <=> LtValue(a, b) = "False" /\ EqValue(a, b) = "False")
        /\ call = "__lt__" =>
              (outcome = "True" <=> LtValue(b, a) = "False" /\ EqValue(a, b) = "False")

(* this > other has been found true of two hands of the same category, of  *)
(* which this has the Ace where other has none.                            *)
C11_Witness ==
    /\ call = "__gt__"
    /\ outcome = "True"
    /\ this.hand[1] = other.hand[1]
    /\ LtValue(this.hand, other.hand) = "False"
    /\ EqValue(this.hand, other.hand) = "False"
    /\ \E i \in 1..Len(HandRanks(this.hand)) :
          HandRanks(this.hand)[i] = ACE /\ HandRanks(other.hand)[i] # ACE

(* The ranks of the rest of hand, if any *)
KickerRanks(hand) == IF Len(hand) = MAXLEN_HAND THEN Ranks(hand[3]) ELSE <<>>

(* C12: for any two classified hands a and b, a == b holds if and only if  *)
(* they have the same category and their primary lists and their kicker    *)
(* lists are pairwise identical by rank.                                   *)
C12_Equal ==
    call = "__eq__" =>
        /\ outcome \in {"True", "False"}
        /\ outcome = "True" <=>
              /\ this.hand[1] = other.hand[1]
              /\ Ranks(this.hand[2]) = Ranks(other.hand[2])
              /\ KickerRanks(this.hand) = KickerRanks(other.hand)

(* this == other has been found true of two hands that have a rest of hand *)
(* and differ in their cards.                                              *)
C12_Witness ==
    /\ call = "__eq__"
    /\ outcome = "True"
    /\ Len(this.hand) = MAXLEN_HAND
    /\ this.hand[3] # other.hand[3]

(* C13: the hand ordering is a total order: for any classified hands a, b  *)
(* and c, if a < b and b < c then a < c, and a <= b holds exactly when     *)
(* a < b or a == b.                                                        *)
C13_TotalOrder ==
    LET a == this.hand
        b == other.hand
    IN  /\ call = "__le__" =>
              /\ outcome \in {"True", "False"}
              /\ outcome = "True" <=>
                    LtValue(a, b) = "True" \/ EqValue(a, b) = "True"
        /\ call = "__lt__" /\ outcome = "True" =>
              \A c \in CmpHands :
                  LtValue(b, c.hand) = "True" => LtValue(a, c.hand) = "True"

(* this < other has been found true where other is lower than a third hand *)
(* of the same category as both, by an Ace in the rest of hand.            *)
C13_Witness ==
    /\ call = "__lt__"
    /\ outcome = "True"
    /\ this.hand[1] = other.hand[1]
    /\ \E c \in CmpHands :
          /\ c.hand[1] = other.hand[1]
          /\ Len(c.hand) = MAXLEN_HAND
          /\ Ranks(c.hand[2]) = Ranks(other.hand[2])
          /\ ACE \in { c.hand[3][i].rank : i \in 1..Len(c.hand[3]) }
          /\ LtValue(other.hand, c.hand) = "True"
          /\ LtValue(this.hand, c.hand) = "True"

-----------------------------------------------------------------------------
(* The life of a hand.                                                     *)

(* One of the two hands holds fewer than 5 cards *)
ShortHand == Len(this.cards) < MIN_NUM_CARDS \/ Len(other.cards) < MIN_NUM_CARDS

(* C14: when either hand passed to a comparison has fewer than 5 cards,    *)
(* the comparison yields an error outcome rather than an ordering: __eq__  *)
(* and __lt__ return NotImplemented, and compare() returns a description   *)
(* reporting 'one or both hands are in error'.                             *)
C14_ErrorOutcome ==
    ShortHand =>
        /\ call \in {"__eq__", "__lt__"} => outcome = "NotImplemented"
        /\ call = "compare" => outcome = "one or both hands are in error"

(* C15: whenever the hand holds fewer than 5 cards, classify() returns the *)
(* empty result for any argument values, and has(htype) returns False for  *)
(* every category.                                                         *)
C15_FewerThanFive ==
    Len(this.cards) < MIN_NUM_CARDS =>
        /\ call = "classify" => outcome = "hand" /\ this.hand = <<>>
        /\ call = "has" => outcome = "False"

(* C16: when classify() is called on a hand holding more than 7 cards, it  *)
(* signals an error and does not return a category as if the hand were     *)
(* valid.                                                                  *)
C16_MoreThanSeven ==
    call = "classify" /\ Len(this.cards) > MAX_NUM_CARDS =>
        outcome # "hand" \/ this.hand = <<>>

(* C17: after any sequence of construction, add_card, clear and classify   *)
(* calls the hand never holds more than 7 cards: add_card on a hand that   *)
(* already holds 7 cards returns False and leaves the cards unchanged.     *)
C17_AtMostSeven == Len(this.cards) <= MAX_NUM_CARDS

(* C18: after any sequence of add_card, clear and classify calls,          *)
(* classify() returns the classification of the cards currently in the     *)
(* hand, which equals what a freshly constructed hand with the same cards  *)
(* would return.                                                           *)
C18_Memo ==
    call = "classify" /\ this.normal_flow /\ outcome = "hand" =>
        this.hand = Ctor(this.cards).hand

-----------------------------------------------------------------------------
(* The statistics.                                                         *)

(* The sum of the counts of a histogram *)
RECURSIVE SumOver(_, _)
SumOver(histogram, types) ==
    IF types = {} THEN 0
    ELSE LET t == CHOOSE t \in types : TRUE
         IN  histogram[t] + SumOver(histogram, types \ {t})

SumOf(histogram) == SumOver(histogram, DOMAIN histogram)

(* C19: after any sequence of successful or failed update, append, clear   *)
(* and += operations on a PokerStats object, the sum of all histogram      *)
(* counts equals the total-samples counter exactly.                        *)
C19_SumIsSamples ==
    \A o \in StatsObjs : SumOf(stats[o].histogram) = stats[o].samples

(* A += has added to the statistics of a, to which a run was appended      *)
(* before, those of b.                                                     *)
C19_Witness ==
    /\ call = <<"+=", "a", "b">>
    /\ outcome = "None"
    /\ stats["a"].operation = APPEND
    /\ stats["a"].froms = <<"b">>
    /\ stats["a"].samples = stats["b"].samples + stats["a"].hands_per_deck
    /\ PAIR \in DOMAIN stats["a"].histogram

(* C20: a successful update(iterations, cards_per_hand) leaves the         *)
(* total-samples counter equal to iterations * (52 // cards_per_hand)      *)
(* whatever the earlier history of the object: the histogram holds the     *)
(* hands of this run only.                                                 *)
C20_ReplaceTotal ==
    \A self \in StatsObjs, iterations \in 0..MaxIterations, cards_per_hand \in CardsInputs :
        call = <<"update", self, iterations, cards_per_hand>> /\ outcome = "True" =>
            /\ stats[self].samples = iterations * (CARDS_PER_DECK \div cards_per_hand)
            /\ SumOf(stats[self].histogram) = stats[self].samples
            /\ \A t \in DOMAIN stats[self].histogram :
                  t = PAIR => stats[self].histogram[t] = 1

(* An update of 1 iteration with 5 cards per hand has succeeded on a,      *)
(* while b holds the statistics of two runs with 7 cards per hand.         *)
C20_Witness ==
    /\ call = <<"update", "a", 1, MIN_NUM_CARDS>>
    /\ outcome = "True"
    /\ stats["a"].samples = CARDS_PER_DECK \div MIN_NUM_CARDS
    /\ stats["b"].samples = 2 * (CARDS_PER_DECK \div MAX_NUM_CARDS)
    /\ stats["b"].froms = <<>>
    /\ stats["a"].tos = <<>>

(* The step is a call that asks for a run: update, append or print.  The  *)
(* object it is called on, its operation and its parameters:               *)
RunCalled == call'[1] \in {"update", "append", "print"}
RunSelf == call'[2]
RunOperation ==
    IF call'[1] = "update" THEN UPDATE
    ELSE IF call'[1] = "append" THEN APPEND
    ELSE call'[3]
RunIterations == IF call'[1] = "print" THEN call'[4] ELSE call'[3]
RunCards == IF call'[1] = "print" THEN call'[5] ELSE call'[4]

(* The step leaves the statistics and the stored parameters of self as     *)
(* they were.                                                              *)
StatsKept(self) ==
    /\ stats'[self].histogram = stats[self].histogram
    /\ stats'[self].samples = stats[self].samples
    /\ stats'[self].iterations = stats[self].iterations
    /\ stats'[self].cards_per_hand = stats[self].cards_per_hand
    /\ stats'[self].operation = stats[self].operation

(* C21: an append with a cards_per_hand different from the one of a        *)
(* non-empty existing histogram returns False and leaves the histogram,    *)
(* the sample counter and the stored iterations, cards_per_hand and        *)
(* operation unchanged.                                                    *)
C21_AppendMismatch ==
    [][(/\ RunCalled
        /\ RunOperation = APPEND
        /\ stats[RunSelf].histogram # <<>>
        /\ RunCards # stats[RunSelf].cards_per_hand)
       => outcome' = "False" /\ StatsKept(RunSelf)]_vars

(* An append of a run with 5 cards per hand has been rejected on a, which  *)
(* holds the statistics of a run with 7 cards per hand.                    *)
C21_Witness ==
    /\ call = <<"append", "a", 1, MIN_NUM_CARDS>>
    /\ outcome = "False"
    /\ stats["a"].cards_per_hand = MAX_NUM_CARDS
    /\ stats["a"].samples = CARDS_PER_DECK \div MAX_NUM_CARDS
    /\ stats["a"].histogram # <<>>

BucketDecreases(o) ==
    \E t \in DOMAIN stats[o].histogram :
        \/ t \notin DOMAIN stats'[o].histogram
        \/ stats'[o].histogram[t] < stats[o].histogram[t]

(* C23: a successful append(iterations, cards_per_hand) makes the sample   *)
(* counter grow by exactly iterations * (52 // cards_per_hand) and lowers  *)
(* no bucket of the histogram; a bucket is lowered only by clear() or by a *)
(* run in replace mode.                                                    *)
C23_AppendAccumulates ==
    [][/\ (RunCalled /\ RunOperation = APPEND /\ outcome' = "True")
          => /\ stats'[RunSelf].samples = stats[RunSelf].samples +
                    RunIterations * (CARDS_PER_DECK \div RunCards)
             /\ ~BucketDecreases(RunSelf)
       /\ \A o \in StatsObjs :
             BucketDecreases(o) =>
                \/ call' = <<"clear", o>>
                \/ RunCalled /\ RunSelf = o /\ RunOperation = UPDATE]_vars

(* An append has succeeded on a, which held the statistics of a run with a *)
(* pair before: it holds two runs now.                                     *)
C23_Witness ==
    /\ call = <<"append", "a", 1, MAX_NUM_CARDS>>
    /\ outcome = "True"
    /\ stats["a"].samples = 2 * (CARDS_PER_DECK \div MAX_NUM_CARDS)
    /\ PAIR \in DOMAIN stats["a"].histogram
    /\ stats["a"].histogram[PAIR] = 2

(* The step is self += other_obj for the two objects: *)
IAddCalled == call'[1] = "+="
IAddSelf == call'[2]
IAddOther == call'[3]

(* The bucket-wise sum of two histograms *)
SumHistogram(h, g) ==
    [t \in DOMAIN h \cup DOMAIN g |->
        (IF t \in DOMAIN h THEN h[t] ELSE 0) + (IF t \in DOMAIN g THEN g[t] ELSE 0)]

(* The step has merged the statistics of other_obj into those of self. *)
Merged(self, other_obj) ==
    /\ stats'[self].histogram =
           SumHistogram(stats[self].histogram, stats[other_obj].histogram)
    /\ stats'[self].samples = stats[self].samples + stats[other_obj].samples

(* Two distinct objects that hold samples and that took part in no merge   *)
(* since their statistics were last cleared.                               *)
Independent(self, other_obj) ==
    /\ self # other_obj
    /\ stats[self].samples > 0 /\ stats[other_obj].samples > 0
    /\ stats[self].froms = <<>> /\ stats[self].tos = <<>>
    /\ stats[other_obj].froms = <<>> /\ stats[other_obj].tos = <<>>

(* C24 as stated: merging two independently generated non-empty PokerStats *)
(* objects built with the same cards_per_hand yields a histogram equal to  *)
(* the bucket-wise sum of both and a sample counter equal to the sum of    *)
(* both.                                                                   *)
C24_SameCards ==
    [][(/\ IAddCalled
        /\ Independent(IAddSelf, IAddOther)
        /\ stats[IAddSelf].cards_per_hand = stats[IAddOther].cards_per_hand)
       => Merged(IAddSelf, IAddOther)]_vars

(* C24 amended: += on two independently generated non-empty PokerStats     *)
(* objects built with the same cards_per_hand yields the bucket-wise sum   *)
(* of the histograms and the sum of the sample counters if the objects     *)
(* also store the same iterations and the same operation; if they do not,  *)
(* the merge is rejected and the left object is unchanged.                 *)
C24_SameParameters ==
    [][(/\ IAddCalled
        /\ Independent(IAddSelf, IAddOther)
        /\ stats[IAddSelf].cards_per_hand = stats[IAddOther].cards_per_hand)
       => IF /\ stats[IAddSelf].iterations = stats[IAddOther].iterations
             /\ stats[IAddSelf].operation = stats[IAddOther].operation
          THEN outcome' = "None" /\ Merged(IAddSelf, IAddOther)
          ELSE outcome' = "error" /\ StatsKept(IAddSelf)]_vars

(* b, the statistics of one run in replace mode, has been merged into a,   *)
(* which held the statistics of one such run with a pair.                  *)
C24_Witness ==
    /\ call = <<"+=", "a", "b">>
    /\ outcome = "None"
    /\ stats["a"].operation = UPDATE
    /\ stats["a"].froms = <<"b">>
    /\ stats["b"].froms = <<>>
    /\ stats["b"].samples = CARDS_PER_DECK \div MAX_NUM_CARDS
    /\ stats["a"].samples = 2 * (CARDS_PER_DECK \div MAX_NUM_CARDS)
    /\ PAIR \in DOMAIN stats["a"].histogram
    /\ PAIR \notin DOMAIN stats["b"].histogram

(* C29: samples are never counted twice by merging.  After a += b has      *)
(* added the samples of b to a, a second a += b is rejected and leaves the *)
(* histogram and the sample counter of a unchanged, at once and as long as *)
(* a lists b among the objects added to it; and adding an object to itself *)
(* is always rejected.                                                     *)
C29_NoDoubleCount ==
    [][IAddCalled =>
          /\ IAddSelf = IAddOther
                => outcome' = "error" /\ StatsKept(IAddSelf)
          /\ (/\ call = <<"+=", IAddSelf, IAddOther>>
              /\ outcome = "None"
              /\ stats[IAddOther].samples > 0)
                => outcome' = "error" /\ StatsKept(IAddSelf)
          /\ (\E i \in 1..Len(stats[IAddSelf].froms) :
                  stats[IAddSelf].froms[i] = IAddOther)
                => outcome' = "error" /\ StatsKept(IAddSelf)]_vars

(* a += b has been rejected although both store the same parameters: b    *)
(* had been added to a before, and a run was appended to a since.          *)
C29_Witness ==
    /\ call = <<"+=", "a", "b">>
    /\ outcome = "error"
    /\ IsAdd(stats["a"], stats["b"])
    /\ stats["a"].froms = <<"b">>
    /\ stats["b"].tos = <<"a">>
    /\ stats["a"].samples = stats["b"].samples + CARDS_PER_DECK \div MAX_NUM_CARDS

(* The objects a, b and c can be added to each other. *)
Compatible == \A x, y \in MergeObjs : IsAdd(stats[x], stats[y])

(* self + other_obj has raised TypeError. *)
Raised(self, other_obj) == call = <<"+", self, other_obj>> /\ outcome = "TypeError"

(* Two sums give the same histogram and the same sample count: one is not  *)
(* computed while the other raises, and if both are computed they agree.   *)
SameSum(x, y, u, v) ==
    /\ ~(Raised(x[1], x[2]) /\ SumNames[y] \in DOMAIN stats)
    /\ ~(Raised(y[1], y[2]) /\ SumNames[x] \in DOMAIN stats)
    /\ (u \in DOMAIN stats /\ v \in DOMAIN stats) =>
           /\ stats[u].histogram = stats[v].histogram
           /\ stats[u].samples = stats[v].samples

(* C25: merging is commutative and associative: for compatible objects a,  *)
(* b and c, merging b then c into a gives the same histogram and sample    *)
(* count as merging c then b, and (a + b) + c gives the same histogram and *)
(* sample count as a + (b + c).                                            *)
C25_CommutativeAssociative ==
    Compatible =>
        /\ SameSum(<<"ab", "c">>, <<"ac", "b">>, "ab_c", "ac_b")
        /\ SameSum(<<"ab", "c">>, <<"a", "bc">>, "ab_c", "a_bc")

-----------------------------------------------------------------------------
(* The best full house.                                                    *)

(* The rank that is highest among the ranks R, the Ace being the highest *)
TopRank(R) == CHOOSE r \in R : \A q \in R : AceHigh(q) <= AceHigh(r)

(* The ranks of which the cards F hold at least n cards *)
GroupsOf(F, n) == { r \in RanksOf(F) : Count(F, r) >= n }

(* C26: when a hand of 5 to 7 cards is classified FullHouse, the first     *)
(* three cards of the hand proper are the highest-ranking three of a kind  *)
(* (Ace highest) and its last two cards come from the highest-ranking      *)
(* other group of 2 or 3 cards (Ace highest), also with two threes of a    *)
(* kind and with a three of a kind and two pairs.                          *)
C26_BestFullHouse ==
    (Classified /\ Category = FULL_HOUSE) =>
        LET F     == CardSet(this.cards)
            three == TopRank(GroupsOf(F, 3))
            pair  == TopRank(GroupsOf(F, 2) \ {three})
        IN  /\ GroupsOf(F, 3) # {}
            /\ GroupsOf(F, 2) \ {three} # {}
            /\ Ranks(Primary) = <<three, three, three, pair, pair>>
            /\ CardSet(Primary) \subseteq F
            /\ Cardinality(CardSet(Primary)) = MIN_NUM_CARDS

(* A hand of 7 cards with three 2s and three Aces has been classified as   *)
(* the full house of Aces over 2s.                                         *)
C26_Witness ==
    /\ Classified
    /\ Len(this.cards) = MAX_NUM_CARDS
    /\ Category = FULL_HOUSE
    /\ Count(CardSet(this.cards), 2) = 3
    /\ Count(CardSet(this.cards), ACE) = 3
    /\ Ranks(Primary) = <<ACE, ACE, ACE, 2, 2>>

-----------------------------------------------------------------------------
(* The order of the cards.                                                 *)

(* The category and the ranks of the hand proper and of the rest of hand   *)
(* that classify() returns as hand.                                        *)
Returned(hand) ==
    [category |-> hand[1],
     primary  |-> Ranks(hand[2]),
     kicker   |-> IF Len(hand) = MAXLEN_HAND THEN Ranks(hand[3]) ELSE <<>>,
     length   |-> Len(hand)]

(* C27: classification does not depend on the order of the input: for two *)
(* orderings of the same 5 to 7 cards, classify() returns the same         *)
(* category and the same sequence of ranks in the hand proper and in the   *)
(* rest of hand.                                                           *)
C27_OrderIndependent ==
    (/\ SameCards(this.cards, other.cards)
     /\ Len(this.cards) \in MIN_NUM_CARDS..MAX_NUM_CARDS
     /\ this.normal_flow /\ other.normal_flow) =>
        /\ this.hand # <<>> /\ other.hand # <<>>
        /\ Returned(this.hand) = Returned(other.hand)

(* 7 cards that hold a flush and a straight to the Ace have been          *)
(* classified in the reverse of the order of the deck: the flush is        *)
(* returned.                                                               *)
C27_Witness ==
    /\ Len(this.cards) = MAX_NUM_CARDS
    /\ this.cards = [i \in 1..MAX_NUM_CARDS |-> other.cards[MAX_NUM_CARDS + 1 - i]]
    /\ this.normal_flow
    /\ this.hand # <<>>
    /\ Returned(this.hand) =
           [category |-> FLUSH, primary |-> <<13, 12, 11, 10, 6>>,
            kicker |-> <<>>, length |-> MAXLEN_HAND - 1]

-----------------------------------------------------------------------------
(* The performance optimizations.                                          *)

(* C28: for every hand of 5 to 7 cards, classify(normal_flow = False), as  *)
(* the statistics call it, returns the same category and the same cards of *)
(* the hand proper as classify() in normal flow returns for these cards,   *)
(* and no rest of hand.                                                    *)
C28_SameAsNormalFlow ==
    (/\ call = "classify"
     /\ outcome = "hand"
     /\ ~this.normal_flow
     /\ Len(this.cards) \in MIN_NUM_CARDS..MAX_NUM_CARDS) =>
        LET normal == Ctor(this.cards)
        IN  /\ normal.normal_flow
            /\ Len(this.hand) = MAXLEN_HAND - 1
            /\ Len(normal.hand) \in {MAXLEN_HAND - 1, MAXLEN_HAND}
            /\ this.hand[1] = normal.hand[1]
            /\ this.hand[2] = normal.hand[2]

(* A hand of 7 cards has been classified with the optimizations as a pair  *)
(* and no rest of hand; in normal flow it has a rest of hand of 3 cards.   *)
C28_Witness ==
    /\ call = "classify"
    /\ outcome = "hand"
    /\ ~this.normal_flow
    /\ Len(this.cards) = MAX_NUM_CARDS
    /\ this.hand[1] = PAIR
    /\ Len(this.hand) = MAXLEN_HAND - 1
    /\ Len(Ctor(this.cards).hand) = MAXLEN_HAND
    /\ Len(Ctor(this.cards).hand[3]) = 3

-----------------------------------------------------------------------------
(* Tic-tac-toe.                                                            *)

(* C30: every game ends.  Whenever draw_move is called with a free square, *)
(* it places an 'X' on a free square once the random choice has produced   *)
(* every value it can produce, so that some value it can produce must be a *)
(* free square; the main loop then reaches a win or a tie.                 *)
C30_DrawMovePlaces ==
    (call = "draw_move" /\ FreeFields(this.board) # {}) =>
        \E choice \in Choices : Coordinates(choice) \in FreeFields(this.board)

====
